---- MODULE Spec2Model ----
(***************************************************************************)
(* A model of the MLflow Go client (pkg/mlflow/client.go and the typed     *)
(* request/response/error definitions): the client configuration, the two *)
(* request executors doRequest and doTextRequest, the typed operations     *)
(* built on them, and the remote server as a nondeterministic environment  *)
(* that answers each HTTP call with a transport failure or a response.     *)
(***************************************************************************)
EXTENDS Integers, Sequences, FiniteSets, TLC

(***************************************************************************)
(* Bounds of the model.                                                    *)
(***************************************************************************)
\* max_results arguments range over -1 .. MaxMaxResults
MaxMaxResults == 1
\* the longest list in a value handed to the JSON round trip
MaxElems == 1
\* the most resources one scenario of the feature tests creates
MaxResources == 3

(***************************************************************************)
(* JSON documents.  A response body is a byte string; encoding/json sees   *)
(* it either as a syntax error or as a syntax tree.                        *)
(***************************************************************************)
JNull == [t |-> "null"]
JBool(b) == [t |-> "bool", b |-> b]
JStr(s) == [t |-> "string", s |-> s]
\* a number literal; a literal with a fraction has int FALSE and n its floor
JNum(n) == [t |-> "number", n |-> n, int |-> TRUE]
JArr(a) == [t |-> "array", a |-> a]
JObj(o) == [t |-> "object", o |-> o]
\* the body is not a JSON document
JInvalid == [t |-> "invalid"]

(***************************************************************************)
(* Go values.  A string is a string, an int an integer, a slice a record   *)
(* that tells nil from empty, a struct a function from field names.       *)
(***************************************************************************)
SliceNil == [isNil |-> TRUE, elems |-> <<>>]
Slice(s) == [isNil |-> FALSE, elems |-> s]
Float(n) == [nan |-> FALSE, n |-> n]
NaN == [nan |-> TRUE]

(***************************************************************************)
(* Go type descriptors: what encoding/json learns from reflection.        *)
(***************************************************************************)
TString == [k |-> "string"]
TInt == [k |-> "int"]
TFloat == [k |-> "float64"]
TBool == [k |-> "bool"]
TSlice(e) == [k |-> "slice", elem |-> e]
TStruct(fs) == [k |-> "struct", fields |-> fs]
\* a struct field: Go name, JSON key, omitempty flag, type
F(name, key, omit, ty) == [name |-> name, key |-> key, omitempty |-> omit, ty |-> ty]

RECURSIVE Zero(_)
\* the zero value of a Go type
Zero(ty) ==
  CASE ty.k = "string" -> ""
    [] ty.k = "int" -> 0
    [] ty.k = "float64" -> Float(0)
    [] ty.k = "bool" -> FALSE
    [] ty.k = "slice" -> SliceNil
    [] ty.k = "struct" ->
         [n \in {ty.fields[i].name : i \in DOMAIN ty.fields} |->
            LET i == CHOOSE i \in DOMAIN ty.fields : ty.fields[i].name = n
            IN Zero(ty.fields[i].ty)]

RECURSIVE Unmarshal(_, _)
\* json.Unmarshal of a syntax tree into a fresh value of type ty: err is set
\* when the document is invalid or some value has the wrong JSON kind for its
\* target; a null leaves the target at its zero value, unknown keys are
\* skipped, and a mismatching value is skipped while decoding goes on.
Unmarshal(j, ty) ==
  IF j.t = "invalid" THEN [err |-> TRUE, v |-> Zero(ty)]
  ELSE IF j.t = "null" THEN [err |-> FALSE, v |-> Zero(ty)]
  ELSE CASE ty.k = "string" ->
              IF j.t = "string" THEN [err |-> FALSE, v |-> j.s]
              ELSE [err |-> TRUE, v |-> ""]
         [] ty.k = "int" ->
              IF j.t = "number" /\ j.int THEN [err |-> FALSE, v |-> j.n]
              ELSE [err |-> TRUE, v |-> 0]
         [] ty.k = "float64" ->
              IF j.t = "number" THEN [err |-> FALSE, v |-> Float(j.n)]
              ELSE [err |-> TRUE, v |-> Float(0)]
         [] ty.k = "bool" ->
              IF j.t = "bool" THEN [err |-> FALSE, v |-> j.b]
              ELSE [err |-> TRUE, v |-> FALSE]
         [] ty.k = "slice" ->
              IF j.t = "array"
              THEN LET sub == [i \in DOMAIN j.a |-> Unmarshal(j.a[i], ty.elem)]
                   IN [err |-> \E i \in DOMAIN sub : sub[i].err,
                       v |-> Slice([i \in DOMAIN sub |-> sub[i].v])]
              ELSE [err |-> TRUE, v |-> SliceNil]
         [] ty.k = "struct" ->
              IF j.t = "object"
              THEN LET sub == [i \in DOMAIN ty.fields |->
                                 IF ty.fields[i].key \in DOMAIN j.o
                                 THEN Unmarshal(j.o[ty.fields[i].key], ty.fields[i].ty)
                                 ELSE [err |-> FALSE, v |-> Zero(ty.fields[i].ty)]]
                   IN [err |-> \E i \in DOMAIN sub : sub[i].err,
                       v |-> [n \in {ty.fields[i].name : i \in DOMAIN ty.fields} |->
                                LET i == CHOOSE i \in DOMAIN ty.fields : ty.fields[i].name = n
                                IN sub[i].v]]
              ELSE [err |-> TRUE, v |-> Zero(ty)]

(***************************************************************************)
(* The typed request, response and error records of the API surface.      *)
(***************************************************************************)
\* the entities
ExperimentTag ==
  TStruct(<<F("Key", "key", FALSE, TString),
     F("Value", "value", FALSE, TString)>>)

Experiment ==
  TStruct(<<F("ExperimentID", "experiment_id", FALSE, TString),
     F("Name", "name", FALSE, TString),
     F("ArtifactLocation", "artifact_location", FALSE, TString),
     F("LifecycleStage", "lifecycle_stage", FALSE, TString),
     F("LastUpdateTime", "last_update_time", FALSE, TInt),
     F("CreationTime", "creation_time", FALSE, TInt),
     F("Tags", "tags", FALSE, TSlice(ExperimentTag))>>)

RunInfo ==
  TStruct(<<F("RunID", "run_id", FALSE, TString),
     F("RunName", "run_name", TRUE, TString),
     F("ExperimentID", "experiment_id", FALSE, TString),
     F("UserID", "user_id", TRUE, TString),
     F("Status", "status", FALSE, TString),
     F("StartTime", "start_time", FALSE, TInt),
     F("EndTime", "end_time", TRUE, TInt),
     F("ArtifactURI", "artifact_uri", FALSE, TString),
     F("LifecycleStage", "lifecycle_stage", FALSE, TString)>>)

Metric ==
  TStruct(<<F("Key", "key", FALSE, TString),
     F("Value", "value", FALSE, TFloat),
     F("Timestamp", "timestamp", FALSE, TInt),
     F("Step", "step", FALSE, TInt)>>)

Param ==
  TStruct(<<F("Key", "key", FALSE, TString),
     F("Value", "value", FALSE, TString)>>)

RunTag ==
  TStruct(<<F("Key", "key", FALSE, TString),
     F("Value", "value", FALSE, TString)>>)

RunData ==
  TStruct(<<F("Metrics", "metrics", FALSE, TSlice(Metric)),
     F("Params", "params", FALSE, TSlice(Param)),
     F("Tags", "tags", FALSE, TSlice(RunTag))>>)

DatasetSchemaColumn ==
  TStruct(<<F("Name", "name", FALSE, TString),
     F("Type", "type", FALSE, TString)>>)

DatasetSchema ==
  TStruct(<<F("Columns", "columns", TRUE, TSlice(DatasetSchemaColumn))>>)

DatasetTag ==
  TStruct(<<F("Key", "key", FALSE, TString),
     F("Value", "value", FALSE, TString)>>)

Dataset ==
  TStruct(<<F("Name", "name", FALSE, TString),
     F("Digest", "digest", FALSE, TString),
     F("SourceType", "source_type", FALSE, TString),
     F("Source", "source", FALSE, TString),
     F("Schema", "schema", TRUE, DatasetSchema),
     F("Profile", "profile", TRUE, TString),
     F("Tags", "tags", TRUE, TSlice(DatasetTag))>>)

ModelInputTag ==
  TStruct(<<F("Key", "key", FALSE, TString),
     F("Value", "value", FALSE, TString)>>)

ModelInput ==
  TStruct(<<F("ModelName", "model_name", FALSE, TString),
     F("ModelVersion", "model_version", TRUE, TString),
     F("ModelStage", "model_stage", TRUE, TString),
     F("Alias", "alias", TRUE, TString),
     F("Tags", "tags", TRUE, TSlice(ModelInputTag))>>)

RunInputs ==
  TStruct(<<F("Datasets", "datasets", TRUE, TSlice(Dataset)),
     F("ModelInputs", "model_inputs", TRUE, TSlice(ModelInput))>>)

ModelOutput ==
  TStruct(<<F("ModelName", "model_name", FALSE, TString),
     F("ModelVersion", "model_version", TRUE, TString),
     F("ModelStage", "model_stage", TRUE, TString),
     F("Alias", "alias", TRUE, TString),
     F("Tags", "tags", TRUE, TSlice(ModelInputTag))>>)

RunOutputs ==
  TStruct(<<F("ModelOutputs", "model_outputs", TRUE, TSlice(ModelOutput))>>)

Run ==
  TStruct(<<F("Info", "info", FALSE, RunInfo),
     F("Data", "data", FALSE, RunData),
     F("Inputs", "inputs", TRUE, RunInputs),
     F("Outputs", "outputs", TRUE, RunOutputs)>>)

ModelVersionTag ==
  TStruct(<<F("Key", "key", FALSE, TString),
     F("Value", "value", FALSE, TString)>>)

ModelVersion ==
  TStruct(<<F("Name", "name", FALSE, TString),
     F("Version", "version", FALSE, TString),
     F("CreationTimestamp", "creation_timestamp", FALSE, TInt),
     F("LastUpdatedTimestamp", "last_updated_timestamp", FALSE, TInt),
     F("UserID", "user_id", TRUE, TString),
     F("CurrentStage", "current_stage", FALSE, TString),
     F("Description", "description", TRUE, TString),
     F("Source", "source", FALSE, TString),
     F("RunID", "run_id", TRUE, TString),
     F("Status", "status", FALSE, TString),
     F("StatusMessage", "status_message", TRUE, TString),
     F("Tags", "tags", TRUE, TSlice(ModelVersionTag)),
     F("Aliases", "aliases", TRUE, TSlice(TString))>>)

RegisteredModelTag ==
  TStruct(<<F("Key", "key", FALSE, TString),
     F("Value", "value", FALSE, TString)>>)

RegisteredModel ==
  TStruct(<<F("Name", "name", FALSE, TString),
     F("CreationTimestamp", "creation_timestamp", FALSE, TInt),
     F("LastUpdatedTimestamp", "last_updated_timestamp", FALSE, TInt),
     F("UserID", "user_id", TRUE, TString),
     F("Description", "description", TRUE, TString),
     F("LatestVersions", "latest_versions", TRUE, TSlice(ModelVersion)),
     F("Tags", "tags", TRUE, TSlice(RegisteredModelTag)),
     F("Aliases", "aliases", TRUE, TSlice(TString))>>)

FileInfo ==
  TStruct(<<F("Path", "path", FALSE, TString),
     F("IsDir", "is_dir", FALSE, TBool),
     F("FileSize", "file_size", TRUE, TInt)>>)

DownloadURIInfo ==
  TStruct(<<F("Path", "path", FALSE, TString),
     F("ArtifactURI", "artifact_uri", FALSE, TString)>>)

\* the request structs, by name
Requests ==
  [CreateExperimentRequest |->
      TStruct(<<F("Name", "name", FALSE, TString),
         F("ArtifactLocation", "artifact_location", TRUE, TString),
         F("Tags", "tags", TRUE, TSlice(ExperimentTag))>>),
   CreateRunRequest |->
      TStruct(<<F("ExperimentID", "experiment_id", FALSE, TString),
         F("UserID", "user_id", TRUE, TString),
         F("RunName", "run_name", TRUE, TString),
         F("StartTime", "start_time", TRUE, TInt),
         F("Tags", "tags", TRUE, TSlice(RunTag))>>),
   LogMetricRequest |->
      TStruct(<<F("RunID", "run_id", FALSE, TString),
         F("Key", "key", FALSE, TString),
         F("Value", "value", FALSE, TFloat),
         F("Timestamp", "timestamp", TRUE, TInt),
         F("Step", "step", TRUE, TInt)>>),
   LogParamRequest |->
      TStruct(<<F("RunID", "run_id", FALSE, TString),
         F("Key", "key", FALSE, TString),
         F("Value", "value", FALSE, TString)>>),
   SetTagRequest |->
      TStruct(<<F("RunID", "run_id", FALSE, TString),
         F("Key", "key", FALSE, TString),
         F("Value", "value", FALSE, TString)>>),
   SearchRunsRequest |->
      TStruct(<<F("ExperimentIDs", "experiment_ids", TRUE, TSlice(TString)),
         F("Filter", "filter", TRUE, TString),
         F("RunViewType", "run_view_type", TRUE, TString),
         F("MaxResults", "max_results", TRUE, TInt),
         F("OrderBy", "order_by", TRUE, TSlice(TString)),
         F("PageToken", "page_token", TRUE, TString)>>),
   UpdateRunRequest |->
      TStruct(<<F("RunID", "run_id", FALSE, TString),
         F("Status", "status", TRUE, TString),
         F("EndTime", "end_time", TRUE, TInt)>>),
   CreateRegisteredModelRequest |->
      TStruct(<<F("Name", "name", FALSE, TString),
         F("Description", "description", TRUE, TString),
         F("Tags", "tags", TRUE, TSlice(RegisteredModelTag))>>),
   CreateModelVersionRequest |->
      TStruct(<<F("Name", "name", FALSE, TString),
         F("Source", "source", FALSE, TString),
         F("RunID", "run_id", TRUE, TString),
         F("Tags", "tags", TRUE, TSlice(ModelVersionTag)),
         F("Description", "description", TRUE, TString)>>),
   GetExperimentRequest |->
      TStruct(<<F("ExperimentID", "experiment_id", FALSE, TString)>>),
   GetExperimentByNameRequest |->
      TStruct(<<F("ExperimentName", "experiment_name", FALSE, TString)>>),
   GetRunRequest |->
      TStruct(<<F("RunID", "run_id", FALSE, TString)>>),
   GetRegisteredModelRequest |->
      TStruct(<<F("Name", "name", FALSE, TString)>>),
   GetModelVersionRequest |->
      TStruct(<<F("Name", "name", FALSE, TString),
         F("Version", "version", FALSE, TString)>>),
   SearchExperimentsRequest |->
      TStruct(<<F("ViewType", "view_type", TRUE, TString),
         F("MaxResults", "max_results", TRUE, TInt),
         F("PageToken", "page_token", TRUE, TString),
         F("Filter", "filter", TRUE, TString),
         F("OrderBy", "order_by", TRUE, TSlice(TString))>>),
   ListArtifactsRequest |->
      TStruct(<<F("RunID", "run_id", FALSE, TString),
         F("Path", "path", TRUE, TString),
         F("PageToken", "page_token", TRUE, TString)>>),
   GetMetricHistoryRequest |->
      TStruct(<<F("RunID", "run_id", FALSE, TString),
         F("MetricKey", "metric_key", FALSE, TString),
         F("MaxResults", "max_results", TRUE, TInt),
         F("PageToken", "page_token", TRUE, TString)>>),
   LogBatchRequest |->
      TStruct(<<F("RunID", "run_id", FALSE, TString),
         F("Metrics", "metrics", TRUE, TSlice(Metric)),
         F("Params", "params", TRUE, TSlice(Param)),
         F("Tags", "tags", TRUE, TSlice(RunTag))>>),
   LogModelRequest |->
      TStruct(<<F("RunID", "run_id", FALSE, TString),
         F("ModelJSON", "model_json", FALSE, TString)>>),
   LogInputsRequest |->
      TStruct(<<F("RunID", "run_id", FALSE, TString),
         F("Datasets", "datasets", TRUE, TSlice(Dataset)),
         F("ModelInputs", "model_inputs", TRUE, TSlice(ModelInput))>>),
   RenameRegisteredModelRequest |->
      TStruct(<<F("Name", "name", FALSE, TString),
         F("NewName", "new_name", FALSE, TString)>>),
   GetLatestModelVersionsRequest |->
      TStruct(<<F("Name", "name", FALSE, TString),
         F("Stages", "stages", TRUE, TSlice(TString))>>),
   SearchModelVersionsRequest |->
      TStruct(<<F("Filter", "filter", TRUE, TString),
         F("MaxResults", "max_results", TRUE, TInt),
         F("OrderBy", "order_by", TRUE, TSlice(TString)),
         F("PageToken", "page_token", TRUE, TString)>>),
   GetDownloadURIsRequest |->
      TStruct(<<F("Name", "name", FALSE, TString),
         F("Version", "version", FALSE, TString),
         F("Paths", "paths", TRUE, TSlice(TString))>>),
   SearchRegisteredModelsRequest |->
      TStruct(<<F("Filter", "filter", TRUE, TString),
         F("MaxResults", "max_results", TRUE, TInt),
         F("OrderBy", "order_by", TRUE, TSlice(TString)),
         F("PageToken", "page_token", TRUE, TString)>>),
   SetRegisteredModelTagRequest |->
      TStruct(<<F("Name", "name", FALSE, TString),
         F("Key", "key", FALSE, TString),
         F("Value", "value", FALSE, TString)>>),
   SetModelVersionTagRequest |->
      TStruct(<<F("Name", "name", FALSE, TString),
         F("Version", "version", FALSE, TString),
         F("Key", "key", FALSE, TString),
         F("Value", "value", FALSE, TString)>>),
   DeleteRegisteredModelTagRequest |->
      TStruct(<<F("Name", "name", FALSE, TString),
         F("Key", "key", FALSE, TString)>>),
   DeleteModelVersionTagRequest |->
      TStruct(<<F("Name", "name", FALSE, TString),
         F("Version", "version", FALSE, TString),
         F("Key", "key", FALSE, TString)>>),
   SetRegisteredModelAliasRequest |->
      TStruct(<<F("Name", "name", FALSE, TString),
         F("Alias", "alias", FALSE, TString),
         F("Version", "version", FALSE, TString)>>),
   DeleteRegisteredModelAliasRequest |->
      TStruct(<<F("Name", "name", FALSE, TString),
         F("Alias", "alias", FALSE, TString),
         F("Version", "version", FALSE, TString)>>),
   GetModelVersionByAliasRequest |->
      TStruct(<<F("Name", "name", FALSE, TString),
         F("Alias", "alias", FALSE, TString)>>)]

\* the response structs, by name
Responses ==
  [CreateExperimentResponse |->
      TStruct(<<F("ExperimentID", "experiment_id", FALSE, TString)>>),
   CreateRunResponse |->
      TStruct(<<F("Run", "run", FALSE, Run)>>),
   SearchRunsResponse |->
      TStruct(<<F("Runs", "runs", FALSE, TSlice(Run)),
         F("NextPageToken", "next_page_token", TRUE, TString)>>),
   UpdateRunResponse |->
      TStruct(<<F("RunInfo", "run_info", FALSE, RunInfo)>>),
   CreateRegisteredModelResponse |->
      TStruct(<<F("RegisteredModel", "registered_model", FALSE, RegisteredModel)>>),
   CreateModelVersionResponse |->
      TStruct(<<F("ModelVersion", "model_version", FALSE, ModelVersion)>>),
   GetExperimentResponse |->
      TStruct(<<F("Experiment", "experiment", FALSE, Experiment)>>),
   GetRunResponse |->
      TStruct(<<F("Run", "run", FALSE, Run)>>),
   GetRegisteredModelResponse |->
      TStruct(<<F("RegisteredModel", "registered_model", FALSE, RegisteredModel)>>),
   GetModelVersionResponse |->
      TStruct(<<F("ModelVersion", "model_version", FALSE, ModelVersion)>>),
   ErrorResponse |->
      TStruct(<<F("ErrorCode", "error_code", FALSE, TString),
         F("Message", "message", FALSE, TString)>>),
   SearchExperimentsResponse |->
      TStruct(<<F("Experiments", "experiments", FALSE, TSlice(Experiment)),
         F("NextPageToken", "next_page_token", TRUE, TString)>>),
   ListArtifactsResponse |->
      TStruct(<<F("RootURI", "root_uri", FALSE, TString),
         F("Files", "files", FALSE, TSlice(FileInfo)),
         F("NextPageToken", "next_page_token", TRUE, TString)>>),
   GetMetricHistoryResponse |->
      TStruct(<<F("Metrics", "metrics", FALSE, TSlice(Metric)),
         F("NextPageToken", "next_page_token", TRUE, TString)>>),
   RenameRegisteredModelResponse |->
      TStruct(<<F("RegisteredModel", "registered_model", FALSE, RegisteredModel)>>),
   GetLatestModelVersionsResponse |->
      TStruct(<<F("ModelVersions", "model_versions", FALSE, TSlice(ModelVersion))>>),
   SearchModelVersionsResponse |->
      TStruct(<<F("ModelVersions", "model_versions", FALSE, TSlice(ModelVersion)),
         F("NextPageToken", "next_page_token", TRUE, TString)>>),
   GetDownloadURIsResponse |->
      TStruct(<<F("Files", "files", FALSE, TSlice(DownloadURIInfo))>>),
   SearchRegisteredModelsResponse |->
      TStruct(<<F("RegisteredModels", "registered_models", FALSE, TSlice(RegisteredModel)),
         F("NextPageToken", "next_page_token", TRUE, TString)>>),
   GetModelVersionByAliasResponse |->
      TStruct(<<F("ModelVersion", "model_version", FALSE, ModelVersion)>>)]

\* the two list responses, declared in the root package's models file
ListRegisteredModelsResponse ==
  TStruct(<<F("RegisteredModels", "registered_models", FALSE, TSlice(RegisteredModel)),
            F("NextPageToken", "next_page_token", TRUE, TString)>>)

ListModelVersionsResponse ==
  TStruct(<<F("ModelVersions", "model_versions", FALSE, TSlice(ModelVersion)),
            F("NextPageToken", "next_page_token", TRUE, TString)>>)

\* a Go map literal sent as a request body: one entry per key, never omitted
TMap(fs) == [k |-> "map", fields |-> fs]

\* (variant: only a nil slice counts as empty)
IsEmptyValueNilOnly(v, ty) ==
  CASE ty.k = "string" -> v = ""
    [] ty.k = "int" -> v = 0
    [] ty.k = "float64" -> v = Float(0)
    [] ty.k = "bool" -> v = FALSE
    [] ty.k = "slice" -> v.isNil
    [] OTHER -> FALSE

\* omitempty's notion of empty: false, 0, "", and a slice of length 0; a
\* struct value is never empty
IsEmptyValue(v, ty) ==
  CASE ty.k = "string" -> v = ""
    [] ty.k = "int" -> v = 0
    [] ty.k = "float64" -> v = Float(0)
    [] ty.k = "bool" -> v = FALSE
    [] ty.k = "slice" -> Len(v.elems) = 0
    [] OTHER -> FALSE

RECURSIVE Marshal(_, _)
\* json.Marshal of a Go value of type ty: err is set for a float that JSON
\* cannot represent (NaN); a nil slice encodes as null, an omitempty field
\* holding an empty value is left out.
Marshal(v, ty) ==
  CASE ty.k = "string" -> [err |-> FALSE, j |-> JStr(v)]
    [] ty.k = "int" -> [err |-> FALSE, j |-> JNum(v)]
    [] ty.k = "float64" ->
         IF v.nan THEN [err |-> TRUE, j |-> JInvalid]
         ELSE [err |-> FALSE, j |-> JNum(v.n)]
    [] ty.k = "bool" -> [err |-> FALSE, j |-> JBool(v)]
    [] ty.k = "slice" ->
         IF v.isNil THEN [err |-> FALSE, j |-> JNull]
         ELSE LET sub == [i \in DOMAIN v.elems |-> Marshal(v.elems[i], ty.elem)]
              IN IF \E i \in DOMAIN sub : sub[i].err
                 THEN [err |-> TRUE, j |-> JInvalid]
                 ELSE [err |-> FALSE, j |-> JArr([i \in DOMAIN sub |-> sub[i].j])]
    [] ty.k \in {"struct", "map"} ->
         LET kept == {i \in DOMAIN ty.fields :
                        ~(ty.fields[i].omitempty
                          /\ IsEmptyValue(v[ty.fields[i].name], ty.fields[i].ty))}
             sub == [i \in kept |-> Marshal(v[ty.fields[i].name], ty.fields[i].ty)]
         IN IF \E i \in kept : sub[i].err
            THEN [err |-> TRUE, j |-> JInvalid]
            ELSE [err |-> FALSE,
                  j |-> JObj([key \in {ty.fields[i].key : i \in kept} |->
                                LET i == CHOOSE i \in kept : ty.fields[i].key = key
                                IN sub[i].j])]

(***************************************************************************)
(* Strings, byte by byte.                                                  *)
(***************************************************************************)
\* the i-th byte of s
At(s, i) == SubSeq(s, i, i)

\* net/url's stringContainsCTLByte: url.Parse (and so http.NewRequest)
\* rejects a URL that holds an ASCII control character
stringContainsCTLByte(s) == \E i \in 1..Len(s) : At(s, i) \in {"\n", "\t", "\r"}

\* url.QueryEscape of one byte: unreserved bytes stay, a space becomes "+",
\* every other byte is percent-encoded
escapeByte(c) ==
  CASE c = " " -> "+"
    [] c = "'" -> "%27"
    [] c = "=" -> "%3D"
    [] c = "/" -> "%2F"
    [] c = "+" -> "%2B"
    [] c = "&" -> "%26"
    [] c = "%" -> "%25"
    [] c = ":" -> "%3A"
    [] c = "?" -> "%3F"
    [] c = "#" -> "%23"
    [] OTHER -> c

RECURSIVE QueryEscape(_)
\* url.QueryEscape
QueryEscape(s) ==
  IF Len(s) = 0 THEN ""
  ELSE escapeByte(At(s, 1)) \o QueryEscape(SubSeq(s, 2, Len(s)))

RECURSIVE ValuesEncode(_)
\* url.Values.Encode for values added in key order (the helpers below add
\* their keys in sorted order, which is the order Encode emits them in)
ValuesEncode(params) ==
  IF Len(params) = 0 THEN ""
  ELSE QueryEscape(params[1][1]) \o "=" \o QueryEscape(params[1][2])
       \o (IF Len(params) > 1 THEN "&" ELSE "")
       \o ValuesEncode(Tail(params))

(***************************************************************************)
(* Errors.  A Go error is nil, an *APIError, an error built by fmt.Errorf  *)
(* (with %w it wraps its cause), or an error of a library.                 *)
(***************************************************************************)
NoError == [kind |-> "nil"]
\* fmt.Errorf without %w
Errorf(msg) == [kind |-> "errorString", msg |-> msg]
\* fmt.Errorf("msg: %w", cause)
Wrap(msg, cause) == [kind |-> "wrapError", msg |-> msg, cause |-> cause]
\* an error returned by net/http, net/url, io or encoding/json
LibError(what) == [kind |-> "library", what |-> what]

\* the struct APIError; ResponseBody holds the raw body bytes
APIError(status, message, body, code) ==
  [kind |-> "APIError", StatusCode |-> status, Message |-> message,
   ResponseBody |-> body, ErrorCode |-> code]

\* IsAPIError: a type assertion on the error value itself, which does not
\* look through wrapping
IsAPIError(err) ==
  [apiErr |-> IF err.kind = "APIError" THEN err ELSE NoError,
   ok |-> err.kind = "APIError"]

\* APIError.Error
APIErrorError(e) ==
  IF e.ErrorCode # ""
  THEN "MLflow API error [" \o ToString(e.StatusCode) \o "]: " \o e.ErrorCode \o " - " \o e.Message
  ELSE IF e.Message # ""
  THEN "MLflow API error [" \o ToString(e.StatusCode) \o "]: " \o e.Message
  ELSE "MLflow API error [" \o ToString(e.StatusCode) \o "]: " \o e.ResponseBody

(***************************************************************************)
(* The environment: what the server and the network can answer.            *)
(***************************************************************************)

\* response bodies, as raw text
Bodies ==
  {"", "OK", "3.8.0", "3.10.0", "10.0.0", "2.9.9",
   "plain text failure",
   "{\"error_code\":\"RESOURCE_DOES_NOT_EXIST\",\"message\":\"Run not found\"}",
   "{\"error_code\":404,\"message\":\"Run not found\"}",
   "{\"message\":\"only a message\"}",
   "{}", "null", "[]",
   "{\"experiment_id\":\"7\"}",
   "{\"experiment_id\":7}",
   "{\"runs\":[],\"next_page_token\":\"tok2\"}",
   "{\"model_versions\":[{\"name\":\"m1\",\"version\":\"1\"}],\"next_page_token\":\"tok2\"}",
   "{\"run\":{\"info\":{\"run_id\":\"r1\",\"start_time\":1.5}}}"}

\* the syntax tree encoding/json reads from a body
Parse(raw) ==
  CASE raw = "{\"error_code\":\"RESOURCE_DOES_NOT_EXIST\",\"message\":\"Run not found\"}" ->
         JObj([error_code |-> JStr("RESOURCE_DOES_NOT_EXIST"), message |-> JStr("Run not found")])
    [] raw = "{\"error_code\":404,\"message\":\"Run not found\"}" ->
         JObj([error_code |-> JNum(404), message |-> JStr("Run not found")])
    [] raw = "{\"message\":\"only a message\"}" ->
         JObj([message |-> JStr("only a message")])
    [] raw = "{}" -> JObj(<<>>)
    [] raw = "null" -> JNull
    [] raw = "[]" -> JArr(<<>>)
    [] raw = "{\"experiment_id\":\"7\"}" -> JObj([experiment_id |-> JStr("7")])
    [] raw = "{\"experiment_id\":7}" -> JObj([experiment_id |-> JNum(7)])
    [] raw = "{\"runs\":[],\"next_page_token\":\"tok2\"}" ->
         JObj([runs |-> JArr(<<>>), next_page_token |-> JStr("tok2")])
    [] raw = "{\"model_versions\":[{\"name\":\"m1\",\"version\":\"1\"}],\"next_page_token\":\"tok2\"}" ->
         JObj([model_versions |-> JArr(<<JObj([name |-> JStr("m1"), version |-> JStr("1")])>>),
               next_page_token |-> JStr("tok2")])
    [] raw = "{\"run\":{\"info\":{\"run_id\":\"r1\",\"start_time\":1.5}}}" ->
         JObj([run |-> JObj([info |-> JObj([run_id |-> JStr("r1"), start_time |-> [t |-> "number", n |-> 1, int |-> FALSE]])])])
    [] OTHER -> JInvalid

\* the outcome of one HTTPClient.Do followed by io.ReadAll: no response at all
\* (connection failure or timeout), a response whose body cannot be read, or a
\* response with a status code and a body
NetOutcomes ==
  {[k |-> "transportError"]}
  \cup {[k |-> "readError", StatusCode |-> s] : s \in {200, 500}}
  \cup {[k |-> "response", StatusCode |-> s, Body |-> b] : s \in {101, 200, 299, 300, 404, 500}, b \in Bodies}

(***************************************************************************)
(* The client: its configuration, and the record of the call in progress.  *)
(***************************************************************************)
VARIABLES
  BaseURL,     \* Client.BaseURL
  AuthToken,   \* Client.AuthToken
  Timeout,     \* Client.HTTPClient.Timeout, in seconds
  call,        \* the last call of an operation: its arguments, the requests
               \* it sent, and the value and error it returned
  tc,          \* the testContext of the feature tests (tests/features)
  store,       \* what the MLflow server under test holds and was asked
  server       \* the MLflowServer of testutil and its Start in progress

vars == <<BaseURL, AuthToken, Timeout, call, tc, store, server>>

\* nil and non-nil results
Nil == [nil |-> TRUE]
Ptr(v) == [nil |-> FALSE, v |-> v]

\* an optional request body handed to doRequest
NoBody == [present |-> FALSE]
Body(v, ty) == [present |-> TRUE, v |-> v, ty |-> ty]

\* (variant: the Authorization header is set whatever the token)
jsonRequestAlwaysAuth(method, endpoint, m) ==
  [method |-> method,
   url |-> BaseURL \o endpoint,
   header |-> ("Content-Type" :> "application/json")
              @@ ("Authorization" :> ("Bearer " \o AuthToken)),
   body |-> m]

\* the request built by doRequest
jsonRequest(method, endpoint, m) ==
  [method |-> method,
   url |-> BaseURL \o endpoint,
   header |-> IF AuthToken # ""
              THEN ("Content-Type" :> "application/json")
                   @@ ("Authorization" :> ("Bearer " \o AuthToken))
              ELSE ("Content-Type" :> "application/json"),
   body |-> m]

\* the APIError doRequest builds from a response outside [200,300): error
\* code and message come from the body when it parses as an ErrorResponse,
\* else the raw body is the message
\* (variant: the fields read from the body are not copied)
newAPIErrorRawOnly(StatusCode, respBody) ==
  APIError(StatusCode, respBody, respBody, "")

\* (variant: an empty message read from the body is replaced by the raw body)
newAPIErrorMessageDefaulted(StatusCode, respBody) ==
  LET errorResp == Unmarshal(Parse(respBody), Responses.ErrorResponse)
  IN IF ~errorResp.err /\ errorResp.v.Message # ""
     THEN APIError(StatusCode, errorResp.v.Message, respBody, errorResp.v.ErrorCode)
     ELSE APIError(StatusCode, respBody, respBody, "")

\* (variant: the fields of errorResp are copied even when parsing failed)
newAPIErrorNoFallback(StatusCode, respBody) ==
  LET errorResp == Unmarshal(Parse(respBody), Responses.ErrorResponse)
  IN APIError(StatusCode, errorResp.v.Message, respBody, errorResp.v.ErrorCode)

newAPIError(StatusCode, respBody) ==
  LET errorResp == Unmarshal(Parse(respBody), Responses.ErrorResponse)
  IN IF ~errorResp.err
     THEN APIError(StatusCode, errorResp.v.Message, respBody, errorResp.v.ErrorCode)
     ELSE APIError(StatusCode, respBody, respBody, "")

\* the local failures of doRequest, before anything is sent
marshalFailed == Wrap("failed to marshal request body: ", LibError("json.UnsupportedValueError"))
createFailed == Wrap("failed to create request: ", LibError("url.Error"))
\* the failures of the round trip
executeFailed == Wrap("failed to execute request: ", LibError("url.Error"))
readFailed == Wrap("failed to read response body: ", LibError("io.ErrUnexpectedEOF"))

\* (variant: the upper end of the success range is off by one)
doRequestOffByOne(method, endpoint, body, net) ==
  LET m == IF body.present THEN Marshal(body.v, body.ty) ELSE [err |-> FALSE, j |-> Nil]
      req == jsonRequest(method, endpoint, m.j)
  IN IF body.present /\ m.err
     THEN [respBody |-> Nil, sent |-> <<>>, err |-> marshalFailed]
     ELSE IF stringContainsCTLByte(BaseURL \o endpoint)
     THEN [respBody |-> Nil, sent |-> <<>>, err |-> createFailed]
     ELSE IF net.k = "transportError"
     THEN [respBody |-> Nil, sent |-> <<req>>, err |-> executeFailed]
     ELSE IF net.k = "readError"
     THEN [respBody |-> Nil, sent |-> <<req>>, err |-> readFailed]
     ELSE IF net.StatusCode < 200 \/ net.StatusCode > 300
     THEN [respBody |-> Nil, sent |-> <<req>>,
           err |-> newAPIError(net.StatusCode, net.Body)]
     ELSE [respBody |-> Ptr(net.Body), sent |-> <<req>>, err |-> NoError]

\* (variant: a failed round trip is tried a second time)
doRequestRetry(method, endpoint, body, net) ==
  LET m == IF body.present THEN Marshal(body.v, body.ty) ELSE [err |-> FALSE, j |-> Nil]
      req == jsonRequest(method, endpoint, m.j)
  IN IF body.present /\ m.err
     THEN [respBody |-> Nil, sent |-> <<>>, err |-> marshalFailed]
     ELSE IF stringContainsCTLByte(BaseURL \o endpoint)
     THEN [respBody |-> Nil, sent |-> <<>>, err |-> createFailed]
     ELSE IF net.k = "transportError"
     THEN [respBody |-> Nil, sent |-> <<req, req>>, err |-> executeFailed]
     ELSE IF net.k = "readError"
     THEN [respBody |-> Nil, sent |-> <<req>>, err |-> readFailed]
     ELSE IF net.StatusCode < 200 \/ net.StatusCode >= 300
     THEN [respBody |-> Nil, sent |-> <<req>>,
           err |-> newAPIError(net.StatusCode, net.Body)]
     ELSE [respBody |-> Ptr(net.Body), sent |-> <<req>>, err |-> NoError]

\* (variant: a body that cannot be marshalled is sent as null)
doRequestMarshalIgnored(method, endpoint, body, net) ==
  LET m == IF body.present THEN Marshal(body.v, body.ty) ELSE [err |-> FALSE, j |-> Nil]
      req == jsonRequest(method, endpoint, IF m.err THEN JNull ELSE m.j)
  IN IF stringContainsCTLByte(BaseURL \o endpoint)
     THEN [respBody |-> Nil, sent |-> <<>>, err |-> createFailed]
     ELSE IF net.k = "transportError"
     THEN [respBody |-> Nil, sent |-> <<req>>, err |-> executeFailed]
     ELSE IF net.k = "readError"
     THEN [respBody |-> Nil, sent |-> <<req>>, err |-> readFailed]
     ELSE IF net.StatusCode < 200 \/ net.StatusCode >= 300
     THEN [respBody |-> Nil, sent |-> <<req>>,
           err |-> newAPIError(net.StatusCode, net.Body)]
     ELSE [respBody |-> Ptr(net.Body), sent |-> <<req>>, err |-> NoError]

\* doRequest: marshal the body, build and send the request, read the
\* response, and turn a status outside [200,300) into an APIError.  net is the
\* outcome of the HTTP call, should the call be made; sent lists the requests
\* handed to HTTPClient.Do.
doRequest(method, endpoint, body, net) ==
  LET m == IF body.present THEN Marshal(body.v, body.ty) ELSE [err |-> FALSE, j |-> Nil]
      req == jsonRequest(method, endpoint, m.j)
  IN IF body.present /\ m.err
     THEN [respBody |-> Nil, sent |-> <<>>, err |-> marshalFailed]
     ELSE IF stringContainsCTLByte(BaseURL \o endpoint)
     THEN [respBody |-> Nil, sent |-> <<>>, err |-> createFailed]
     ELSE IF net.k = "transportError"
     THEN [respBody |-> Nil, sent |-> <<req>>, err |-> executeFailed]
     ELSE IF net.k = "readError"
     THEN [respBody |-> Nil, sent |-> <<req>>, err |-> readFailed]
     ELSE IF net.StatusCode < 200 \/ net.StatusCode >= 300
     THEN [respBody |-> Nil, sent |-> <<req>>,
           err |-> newAPIError(net.StatusCode, net.Body)]
     ELSE [respBody |-> Ptr(net.Body), sent |-> <<req>>, err |-> NoError]

\* (variant: the decoding error is dropped)
unmarshalResponseUnchecked(T, respBody) ==
  [value |-> Ptr(Unmarshal(Parse(respBody), T).v), err |-> NoError]

\* unmarshalResponse[T]
unmarshalResponse(T, respBody) ==
  LET response == Unmarshal(Parse(respBody), T)
  IN IF response.err
     THEN [value |-> Nil,
           err |-> Wrap("failed to unmarshal response: ", LibError("json.UnmarshalTypeError"))]
     ELSE [value |-> Ptr(response.v), err |-> NoError]

\* the request built by doTextRequest: no body, no content type
textRequest(method, endpoint) ==
  [method |-> method,
   url |-> BaseURL \o endpoint,
   header |-> IF AuthToken # ""
              THEN ("Authorization" :> ("Bearer " \o AuthToken))
              ELSE <<>>,
   body |-> Nil]

\* (variant: the lower end of the success range is off by one)
doTextRequestOffByOne(method, endpoint, net) ==
  LET req == textRequest(method, endpoint)
  IN IF stringContainsCTLByte(BaseURL \o endpoint)
     THEN [text |-> "", sent |-> <<>>, err |-> createFailed]
     ELSE IF net.k = "transportError"
     THEN [text |-> "", sent |-> <<req>>, err |-> executeFailed]
     ELSE IF net.k = "readError"
     THEN [text |-> "", sent |-> <<req>>, err |-> readFailed]
     ELSE IF net.StatusCode <= 200 \/ net.StatusCode >= 300
     THEN [text |-> "", sent |-> <<req>>,
           err |-> APIError(net.StatusCode, net.Body, net.Body, "")]
     ELSE [text |-> net.Body, sent |-> <<req>>, err |-> NoError]

\* (variant: the error body is parsed as in doRequest)
doTextRequestParsesError(method, endpoint, net) ==
  LET req == textRequest(method, endpoint)
  IN IF stringContainsCTLByte(BaseURL \o endpoint)
     THEN [text |-> "", sent |-> <<>>, err |-> createFailed]
     ELSE IF net.k = "transportError"
     THEN [text |-> "", sent |-> <<req>>, err |-> executeFailed]
     ELSE IF net.k = "readError"
     THEN [text |-> "", sent |-> <<req>>, err |-> readFailed]
     ELSE IF net.StatusCode < 200 \/ net.StatusCode >= 300
     THEN [text |-> "", sent |-> <<req>>, err |-> newAPIError(net.StatusCode, net.Body)]
     ELSE [text |-> net.Body, sent |-> <<req>>, err |-> NoError]

\* doTextRequest: as doRequest, without a body and without parsing the error
doTextRequest(method, endpoint, net) ==
  LET req == textRequest(method, endpoint)
  IN IF stringContainsCTLByte(BaseURL \o endpoint)
     THEN [text |-> "", sent |-> <<>>, err |-> createFailed]
     ELSE IF net.k = "transportError"
     THEN [text |-> "", sent |-> <<req>>, err |-> executeFailed]
     ELSE IF net.k = "readError"
     THEN [text |-> "", sent |-> <<req>>, err |-> readFailed]
     ELSE IF net.StatusCode < 200 \/ net.StatusCode >= 300
     THEN [text |-> "", sent |-> <<req>>,
           err |-> APIError(net.StatusCode, net.Body, net.Body, "")]
     ELSE [text |-> net.Body, sent |-> <<req>>, err |-> NoError]

(***************************************************************************)
(* API endpoint constants.                                                 *)
(***************************************************************************)
\* the endpoint constants, by name without the prefix "endpoint"
endpoints ==
  LET
      apiBasePath == "/api/2.0/mlflow"
      experimentsBaseURL == apiBasePath \o "/experiments"
      runsBaseURL == apiBasePath \o "/runs"
      registeredModelsBaseURL == apiBasePath \o "/registered-models"
      modelVersionsBaseURL == apiBasePath \o "/model-versions"
      endpointHealth == "/health"
      endpointVersion == "/version"
      endpointExperimentsCreate == experimentsBaseURL \o "/create"
      endpointExperimentsGetBase == experimentsBaseURL \o "/get"
      endpointExperimentsGetByNameBase == experimentsBaseURL \o "/get-by-name"
      endpointExperimentsDeleteBase == experimentsBaseURL \o "/delete"
      endpointExperimentsRestoreBase == experimentsBaseURL \o "/restore"
      endpointExperimentsUpdate == experimentsBaseURL \o "/update"
      endpointExperimentsSetTag == experimentsBaseURL \o "/set-experiment-tag"
      endpointExperimentsDeleteTag == experimentsBaseURL \o "/delete-experiment-tag"
      endpointExperimentsSearch == experimentsBaseURL \o "/search"
      endpointRunsCreate == runsBaseURL \o "/create"
      endpointRunsGet == runsBaseURL \o "/get"
      endpointRunsSearch == runsBaseURL \o "/search"
      endpointRunsUpdate == runsBaseURL \o "/update"
      endpointRunsDelete == runsBaseURL \o "/delete"
      endpointRunsRestore == runsBaseURL \o "/restore"
      endpointRunsLogMetric == runsBaseURL \o "/log-metric"
      endpointRunsLogParameter == runsBaseURL \o "/log-parameter"
      endpointRunsSetTag == runsBaseURL \o "/set-tag"
      endpointRunsDeleteTag == runsBaseURL \o "/delete-tag"
      endpointRunsLogBatch == runsBaseURL \o "/log-batch"
      endpointRunsLogModel == runsBaseURL \o "/log-model"
      endpointRunsLogInputs == runsBaseURL \o "/log-inputs"
      endpointMetricsGetHistoryBase == apiBasePath \o "/metrics/get-history"
      endpointArtifactsListBase == apiBasePath \o "/artifacts/list"
      endpointRegisteredModelsCreate == registeredModelsBaseURL \o "/create"
      endpointRegisteredModelsGet == registeredModelsBaseURL \o "/get"
      endpointRegisteredModelsList == registeredModelsBaseURL \o "/list"
      endpointRegisteredModelsUpdate == registeredModelsBaseURL \o "/update"
      endpointRegisteredModelsDelete == registeredModelsBaseURL \o "/delete"
      endpointRegisteredModelsRename == registeredModelsBaseURL \o "/rename"
      endpointRegisteredModelsGetLatestVersions == registeredModelsBaseURL \o "/get-latest-versions"
      endpointRegisteredModelsSearch == registeredModelsBaseURL \o "/search"
      endpointRegisteredModelsSetTag == registeredModelsBaseURL \o "/set-tag"
      endpointRegisteredModelsDeleteTagBase == registeredModelsBaseURL \o "/delete-tag"
      endpointRegisteredModelsAliasBase == registeredModelsBaseURL \o "/alias"
      endpointRegisteredModelsGetModelVersionByAliasBase == registeredModelsBaseURL \o "/get-model-version-by-alias"
      endpointModelVersionsCreate == modelVersionsBaseURL \o "/create"
      endpointModelVersionsGetBase == modelVersionsBaseURL \o "/get"
      endpointModelVersionsList == modelVersionsBaseURL \o "/list"
      endpointModelVersionsUpdate == modelVersionsBaseURL \o "/update"
      endpointModelVersionsDeleteBase == modelVersionsBaseURL \o "/delete"
      endpointModelVersionsTransitionStage == modelVersionsBaseURL \o "/transition-stage"
      endpointModelVersionsSearch == modelVersionsBaseURL \o "/search"
      endpointModelVersionsGetDownloadURIs == modelVersionsBaseURL \o "/get-download-uris"
      endpointModelVersionsSetTag == modelVersionsBaseURL \o "/set-tag"
      endpointModelVersionsDeleteTagBase == modelVersionsBaseURL \o "/delete-tag"
  IN [Health |-> endpointHealth,
      Version |-> endpointVersion,
      ExperimentsCreate |-> endpointExperimentsCreate,
      ExperimentsGetBase |-> endpointExperimentsGetBase,
      ExperimentsGetByNameBase |-> endpointExperimentsGetByNameBase,
      ExperimentsDeleteBase |-> endpointExperimentsDeleteBase,
      ExperimentsRestoreBase |-> endpointExperimentsRestoreBase,
      ExperimentsUpdate |-> endpointExperimentsUpdate,
      ExperimentsSetTag |-> endpointExperimentsSetTag,
      ExperimentsDeleteTag |-> endpointExperimentsDeleteTag,
      ExperimentsSearch |-> endpointExperimentsSearch,
      RunsCreate |-> endpointRunsCreate,
      RunsGet |-> endpointRunsGet,
      RunsSearch |-> endpointRunsSearch,
      RunsUpdate |-> endpointRunsUpdate,
      RunsDelete |-> endpointRunsDelete,
      RunsRestore |-> endpointRunsRestore,
      RunsLogMetric |-> endpointRunsLogMetric,
      RunsLogParameter |-> endpointRunsLogParameter,
      RunsSetTag |-> endpointRunsSetTag,
      RunsDeleteTag |-> endpointRunsDeleteTag,
      RunsLogBatch |-> endpointRunsLogBatch,
      RunsLogModel |-> endpointRunsLogModel,
      RunsLogInputs |-> endpointRunsLogInputs,
      MetricsGetHistoryBase |-> endpointMetricsGetHistoryBase,
      ArtifactsListBase |-> endpointArtifactsListBase,
      RegisteredModelsCreate |-> endpointRegisteredModelsCreate,
      RegisteredModelsGet |-> endpointRegisteredModelsGet,
      RegisteredModelsList |-> endpointRegisteredModelsList,
      RegisteredModelsUpdate |-> endpointRegisteredModelsUpdate,
      RegisteredModelsDelete |-> endpointRegisteredModelsDelete,
      RegisteredModelsRename |-> endpointRegisteredModelsRename,
      RegisteredModelsGetLatestVersions |-> endpointRegisteredModelsGetLatestVersions,
      RegisteredModelsSearch |-> endpointRegisteredModelsSearch,
      RegisteredModelsSetTag |-> endpointRegisteredModelsSetTag,
      RegisteredModelsDeleteTagBase |-> endpointRegisteredModelsDeleteTagBase,
      RegisteredModelsAliasBase |-> endpointRegisteredModelsAliasBase,
      RegisteredModelsGetModelVersionByAliasBase |-> endpointRegisteredModelsGetModelVersionByAliasBase,
      ModelVersionsCreate |-> endpointModelVersionsCreate,
      ModelVersionsGetBase |-> endpointModelVersionsGetBase,
      ModelVersionsList |-> endpointModelVersionsList,
      ModelVersionsUpdate |-> endpointModelVersionsUpdate,
      ModelVersionsDeleteBase |-> endpointModelVersionsDeleteBase,
      ModelVersionsTransitionStage |-> endpointModelVersionsTransitionStage,
      ModelVersionsSearch |-> endpointModelVersionsSearch,
      ModelVersionsGetDownloadURIs |-> endpointModelVersionsGetDownloadURIs,
      ModelVersionsSetTag |-> endpointModelVersionsSetTag,
      ModelVersionsDeleteTagBase |-> endpointModelVersionsDeleteTagBase]

\* (variant: max_results is added whenever it is not zero)
pagingParamsNonZero(maxResults, pageToken) ==
  (IF maxResults # 0 THEN << <<"max_results", ToString(maxResults)>> >> ELSE <<>>)
  \o (IF pageToken # "" THEN << <<"page_token", pageToken>> >> ELSE <<>>)

\* (variant: the page token is left out of the parameters)
pagingParamsNoToken(maxResults, pageToken) ==
  IF maxResults > 0 THEN << <<"max_results", ToString(maxResults)>> >> ELSE <<>>

\* the max_results and page_token parameters shared by the list endpoints
pagingParams(maxResults, pageToken) ==
  (IF maxResults > 0 THEN << <<"max_results", ToString(maxResults)>> >> ELSE <<>>)
  \o (IF pageToken # "" THEN << <<"page_token", pageToken>> >> ELSE <<>>)

\* one query parameter per element of a string slice
repeatedParam(key, slice) == [i \in DOMAIN slice.elems |-> <<key, slice.elems[i]>>]

endpointMetricsGetHistory(runUUID, metricKey, maxResults, pageToken) ==
  LET endpoint == endpoints.MetricsGetHistoryBase \o "?run_uuid=" \o QueryEscape(runUUID)
                    \o "&metric_key=" \o QueryEscape(metricKey)
  IN IF maxResults > 0 \/ pageToken # ""
     THEN endpoint \o "&" \o ValuesEncode(pagingParams(maxResults, pageToken))
     ELSE endpoint

endpointArtifactsList(runID, path, pageToken) ==
  endpoints.ArtifactsListBase \o "?run_id=" \o QueryEscape(runID)
  \o (IF path # "" THEN "&path=" \o QueryEscape(path) ELSE "")
  \o (IF pageToken # "" THEN "&page_token=" \o QueryEscape(pageToken) ELSE "")

endpointRegisteredModelsListWithParams(maxResults, pageToken) ==
  IF maxResults > 0 \/ pageToken # ""
  THEN endpoints.RegisteredModelsList \o "?" \o ValuesEncode(pagingParams(maxResults, pageToken))
  ELSE endpoints.RegisteredModelsList

endpointModelVersionsListWithParams(name, maxResults, pageToken) ==
  LET endpoint == endpoints.ModelVersionsList \o "?name=" \o QueryEscape(name)
  IN IF maxResults > 0 \/ pageToken # ""
     THEN endpoint \o "&" \o ValuesEncode(pagingParams(maxResults, pageToken))
     ELSE endpoint

endpointRegisteredModelsGetLatestVersionsWithParams(name, stages) ==
  LET endpoint == endpoints.RegisteredModelsGetLatestVersions \o "?name=" \o QueryEscape(name)
  IN IF Len(stages.elems) > 0
     THEN endpoint \o "&" \o ValuesEncode(repeatedParam("stages", stages))
     ELSE endpoint

endpointModelVersionsSearchWithParams(filter, maxResults, orderBy, pageToken) ==
  LET params == (IF filter # "" THEN << <<"filter", filter>> >> ELSE <<>>)
                \o (IF maxResults > 0 THEN << <<"max_results", ToString(maxResults)>> >> ELSE <<>>)
                \o repeatedParam("order_by", orderBy)
                \o (IF pageToken # "" THEN << <<"page_token", pageToken>> >> ELSE <<>>)
  IN IF Len(params) > 0
     THEN endpoints.ModelVersionsSearch \o "?" \o ValuesEncode(params)
     ELSE endpoints.ModelVersionsSearch

(***************************************************************************)
(* Inputs of the operations.                                               *)
(***************************************************************************)
\* URLs handed to NewClient: plain, with one and with two trailing slashes,
\* and one that net/url cannot parse
BaseURLs ==
  {"http://localhost:5000", "http://localhost:5000/", "http://localhost:5000//",
   "http://localhost:5000\n"}
AuthTokens == {"", "secret-1", "secret-2"}
\* readings of time.Now().UnixMilli() (small numbers stand for the clock)
Clock == {1500, 1501}
MaxResultsValues == (0 - 1)..MaxMaxResults
PageTokens == {"", "tok 1"}

\* the value an operation returns besides its error: Void for an operation
\* that returns only an error
Void == [void |-> TRUE]

\* no call is in progress and no result is held
NoCall == [op |-> "none"]

\* testContext.reset, on a testContext that holds no resources
reset ==
  [experimentID |-> "", experimentName |-> "", runID |-> "", modelName |-> "",
   lastError |-> NoError, createdResources |-> <<>>, scenario |-> "running"]

\* NewMLflowServer.  cmd is nil, unstarted (an exec.Cmd without Process),
\* running or killed; pc tells whether a Start is inside waitForServer; now
\* and deadline count ticker periods of 500 ms since Start; cancelled is the
\* state of the context handed to Start; probe is the answer to the last
\* GET /health of waitForServer; last and returned are the method that
\* returned last and what it returned
NewMLflowServer ==
  [cmd |-> "nil", pc |-> "idle", now |-> 0, deadline |-> 0, cancelled |-> FALSE,
   probe |-> "none", last |-> "none", returned |-> "none"]

\* NewClient
NewClient(baseURL) ==
  [BaseURL |-> IF Len(baseURL) > 0 /\ At(baseURL, Len(baseURL)) = "/"
               THEN SubSeq(baseURL, 1, Len(baseURL) - 1)
               ELSE baseURL,
   Timeout |-> 30,
   AuthToken |-> ""]

Init ==
  \E u \in BaseURLs :
    /\ BaseURL = NewClient(u).BaseURL
    /\ AuthToken = NewClient(u).AuthToken
    /\ Timeout = NewClient(u).Timeout
    /\ call = NoCall
    /\ tc = reset
    \* the MLflow server under test holds nothing yet: the experiments, runs
    \* and models it holds, those of them the scenario in progress created,
    \* and the delete requests the After-hook sent
    /\ store = [experiments |-> {}, runs |-> {}, models |-> {}, created |-> {}, deletes |-> <<>>]
    /\ server = NewMLflowServer

\* SetAuthToken
SetAuthToken ==
  \E token \in AuthTokens :
    /\ AuthToken' = token
    /\ UNCHANGED <<BaseURL, Timeout, call, tc, store, server>>

\* (variant: the timeout is set on a freshly built client, which has no token)
SetTimeoutOnNewClient ==
  \E timeout \in {5, 30} :
    /\ Timeout' = timeout
    /\ AuthToken' = NewClient(BaseURL).AuthToken
    /\ UNCHANGED <<BaseURL, call, tc, store, server>>

\* SetTimeout
SetTimeout ==
  \E timeout \in {5, 30} :
    /\ Timeout' = timeout
    /\ UNCHANGED <<BaseURL, AuthToken, call, tc, store, server>>

\* the caller lets go of the result of the last call
Discard ==
  /\ call # NoCall
  /\ call' = NoCall
  /\ UNCHANGED <<BaseURL, AuthToken, Timeout, tc, store, server>>

\* the record of a finished call: the requests it sent and the answers it got
Returned(op, req, r, net) ==
  [op |-> op, req |-> req, sent |-> r.sent,
   resps |-> IF Len(r.sent) > 0 THEN <<net>> ELSE <<>>,
   value |-> r.value, err |-> r.err]

\* the tail of a value-returning operation:
\* if err != nil { return nil, err }; return unmarshalResponse[T](respBody)
decoded(T, r) ==
  IF r.err # NoError
  THEN [value |-> Nil, err |-> r.err, sent |-> r.sent]
  ELSE LET u == unmarshalResponse(T, r.respBody.v)
       IN [value |-> u.value, err |-> u.err, sent |-> r.sent]

\* (variant: the body of a successful response is decoded before returning)
errorOnlyDecoding(r) ==
  IF r.err # NoError
  THEN [value |-> Void, err |-> r.err, sent |-> r.sent]
  ELSE [value |-> Void, sent |-> r.sent,
        err |-> unmarshalResponse(Responses.ErrorResponse, r.respBody.v).err]

\* the tail of an operation that returns only an error:
\* _, err := c.doRequest(...); return err
errorOnly(r) == [value |-> Void, err |-> r.err, sent |-> r.sent]

\* a local failure before any request is built
failedLocally(err) == [value |-> Nil, err |-> err, sent |-> <<>>]

\* one call of an operation, from the caller's point of view: the arguments
\* are chosen, the server's answer is chosen, the operation runs to its return
Invoke(op, Reqs, Operation(_, _)) ==
  /\ call = NoCall
  /\ \E req \in Reqs, net \in NetOutcomes : call' = Returned(op, req, Operation(req, net), net)
  /\ UNCHANGED <<BaseURL, AuthToken, Timeout, tc, store, server>>

(***************************************************************************)
(* Experiments API                                                         *)
(***************************************************************************)
ExperimentIDs == {"7"}

CreateExperiment ==
  Invoke("CreateExperiment", {[Name |-> "e1", ArtifactLocation |-> "", Tags |-> t] :
                                t \in {SliceNil, Slice(<<[Key |-> "k", Value |-> "v"]>>)}},
         LAMBDA req, net :
           decoded(Responses.CreateExperimentResponse,
                   doRequest("POST", endpoints.ExperimentsCreate,
                             Body(req, Requests.CreateExperimentRequest), net)))

GetExperiment ==
  Invoke("GetExperiment", {[experimentID |-> e] : e \in ExperimentIDs},
         LAMBDA a, net :
           decoded(Responses.GetExperimentResponse,
                   doRequest("GET", endpoints.ExperimentsGetBase,
                             Body([ExperimentID |-> a.experimentID], Requests.GetExperimentRequest), net)))

GetExperimentByName ==
  Invoke("GetExperimentByName", {[experimentName |-> "e1"]},
         LAMBDA a, net :
           decoded(Responses.GetExperimentResponse,
                   doRequest("GET", endpoints.ExperimentsGetByNameBase,
                             Body([ExperimentName |-> a.experimentName],
                                  Requests.GetExperimentByNameRequest), net)))

DeleteExperiment ==
  Invoke("DeleteExperiment", {[experimentID |-> e] : e \in ExperimentIDs},
         LAMBDA a, net :
           errorOnly(doRequest("POST", endpoints.ExperimentsDeleteBase,
                               Body([experiment_id |-> a.experimentID], TMap(<<F("experiment_id", "experiment_id", FALSE, TString)>>)), net)))

RestoreExperiment ==
  Invoke("RestoreExperiment", {[experimentID |-> e] : e \in ExperimentIDs},
         LAMBDA a, net :
           errorOnly(doRequest("POST", endpoints.ExperimentsRestoreBase,
                               Body([experiment_id |-> a.experimentID], TMap(<<F("experiment_id", "experiment_id", FALSE, TString)>>)), net)))

UpdateExperiment ==
  Invoke("UpdateExperiment", {[experimentID |-> e, newName |-> "e2"] : e \in ExperimentIDs},
         LAMBDA a, net :
           errorOnly(doRequest("POST", endpoints.ExperimentsUpdate,
                               Body([experiment_id |-> a.experimentID, new_name |-> a.newName],
                                    TMap(<<F("experiment_id", "experiment_id", FALSE, TString),
                                           F("new_name", "new_name", FALSE, TString)>>)), net)))

SetExperimentTag ==
  Invoke("SetExperimentTag", {[experimentID |-> e, key |-> "k", value |-> "v"] : e \in ExperimentIDs},
         LAMBDA a, net :
           errorOnly(doRequest("POST", endpoints.ExperimentsSetTag,
                               Body([experiment_id |-> a.experimentID, key |-> a.key, value |-> a.value],
                                    TMap(<<F("experiment_id", "experiment_id", FALSE, TString),
                                           F("key", "key", FALSE, TString),
                                           F("value", "value", FALSE, TString)>>)), net)))

DeleteExperimentTag ==
  Invoke("DeleteExperimentTag", {[experimentID |-> e, key |-> "k"] : e \in ExperimentIDs},
         LAMBDA a, net :
           errorOnly(doRequest("POST", endpoints.ExperimentsDeleteTag,
                               Body([experiment_id |-> a.experimentID, key |-> a.key],
                                    TMap(<<F("experiment_id", "experiment_id", FALSE, TString),
                                           F("key", "key", FALSE, TString)>>)), net)))

SearchExperiments ==
  Invoke("SearchExperiments", {[ViewType |-> "", MaxResults |-> n, PageToken |-> p, Filter |-> "", OrderBy |-> SliceNil] :
                                 n \in MaxResultsValues, p \in PageTokens},
         LAMBDA req, net :
           IF req.MaxResults <= 0
           THEN failedLocally(Errorf("max_results must be greater than zero when provided"))
           ELSE decoded(Responses.SearchExperimentsResponse,
                        doRequest("POST", endpoints.ExperimentsSearch,
                                  Body(req, Requests.SearchExperimentsRequest), net)))

(***************************************************************************)
(* Runs API                                                                *)
(***************************************************************************)
RunIDs == {"r1"}

\* (variant: the start time is sent as given, never defaulted)
CreateRunNoDefault ==
  /\ call = NoCall
  /\ \E req \in {[ExperimentID |-> "7", UserID |-> u, RunName |-> "", StartTime |-> t, Tags |-> SliceNil] :
                   u \in {"", "u1"}, t \in {0, 42}}, now \in Clock, net \in NetOutcomes :
       call' = Returned("CreateRun", req,
                        decoded(Responses.CreateRunResponse,
                                doRequest("POST", endpoints.RunsCreate,
                                          Body(req, Requests.CreateRunRequest), net)), net)
               @@ [now |-> now]
  /\ UNCHANGED <<BaseURL, AuthToken, Timeout, tc, store, server>>

\* the call also records the clock reading it took (now)
CreateRun ==
  /\ call = NoCall
  /\ \E req \in {[ExperimentID |-> "7", UserID |-> u, RunName |-> "", StartTime |-> t, Tags |-> SliceNil] :
                   u \in {"", "u1"}, t \in {0, 42}}, now \in Clock, net \in NetOutcomes :
       LET req1 == IF req.StartTime = 0 THEN [req EXCEPT !.StartTime = now] ELSE req
       IN call' = Returned("CreateRun", req,
                           decoded(Responses.CreateRunResponse,
                                   doRequest("POST", endpoints.RunsCreate,
                                             Body(req1, Requests.CreateRunRequest), net)), net)
                  @@ [now |-> now]
  /\ UNCHANGED <<BaseURL, AuthToken, Timeout, tc, store, server>>

GetRun ==
  Invoke("GetRun", {[runID |-> r] : r \in RunIDs},
         LAMBDA a, net :
           decoded(Responses.GetRunResponse,
                   doRequest("POST", endpoints.RunsGet,
                             Body([RunID |-> a.runID], Requests.GetRunRequest), net)))

SearchRunsRequests ==
  {[ExperimentIDs |-> Slice(<<"7">>), Filter |-> f, RunViewType |-> "", MaxResults |-> n,
    OrderBy |-> SliceNil, PageToken |-> p] :
     f \in {"", "name='m1'"}, n \in MaxResultsValues, p \in PageTokens}

\* (variant: only a negative max_results is rejected)
SearchRunsZeroAllowed ==
  Invoke("SearchRuns", SearchRunsRequests,
         LAMBDA req, net :
           IF req.MaxResults < 0
           THEN failedLocally(Errorf("max_results must be greater than zero when provided"))
           ELSE decoded(Responses.SearchRunsResponse,
                        doRequest("POST", endpoints.RunsSearch,
                                  Body(req, Requests.SearchRunsRequest), net)))

SearchRuns ==
  Invoke("SearchRuns", SearchRunsRequests,
         LAMBDA req, net :
           IF req.MaxResults <= 0
           THEN failedLocally(Errorf("max_results must be greater than zero when provided"))
           ELSE decoded(Responses.SearchRunsResponse,
                        doRequest("POST", endpoints.RunsSearch,
                                  Body(req, Requests.SearchRunsRequest), net)))

UpdateRun ==
  Invoke("UpdateRun", {[RunID |-> r, Status |-> "FINISHED", EndTime |-> 0] : r \in RunIDs},
         LAMBDA req, net :
           decoded(Responses.UpdateRunResponse,
                   doRequest("POST", endpoints.RunsUpdate, Body(req, Requests.UpdateRunRequest), net)))

DeleteRun ==
  Invoke("DeleteRun", {[runID |-> r] : r \in RunIDs},
         LAMBDA a, net :
           errorOnly(doRequest("POST", endpoints.RunsDelete,
                               Body([run_id |-> a.runID], TMap(<<F("run_id", "run_id", FALSE, TString)>>)), net)))

RestoreRun ==
  Invoke("RestoreRun", {[runID |-> r] : r \in RunIDs},
         LAMBDA a, net :
           errorOnly(doRequest("POST", endpoints.RunsRestore,
                               Body([run_id |-> a.runID], TMap(<<F("run_id", "run_id", FALSE, TString)>>)), net)))

\* (variant: the timestamp is sent as given, never defaulted)
LogMetricNoDefault ==
  /\ call = NoCall
  /\ \E req \in {[RunID |-> "r1", Key |-> "loss", Value |-> v, Timestamp |-> t, Step |-> st] :
                   v \in {Float(1), NaN}, t \in {0, 42}, st \in {0, 3}}, now \in Clock, net \in NetOutcomes :
       call' = Returned("LogMetric", req,
                        errorOnly(doRequest("POST", endpoints.RunsLogMetric,
                                            Body(req, Requests.LogMetricRequest), net)), net)
               @@ [now |-> now]
  /\ UNCHANGED <<BaseURL, AuthToken, Timeout, tc, store, server>>

\* the call also records the clock reading it took (now)
LogMetric ==
  /\ call = NoCall
  /\ \E req \in {[RunID |-> "r1", Key |-> "loss", Value |-> v, Timestamp |-> t, Step |-> st] :
                   v \in {Float(1), NaN}, t \in {0, 42}, st \in {0, 3}}, now \in Clock, net \in NetOutcomes :
       LET req1 == IF req.Timestamp = 0 THEN [req EXCEPT !.Timestamp = now] ELSE req
           req2 == IF req1.Step = 0 THEN [req1 EXCEPT !.Step = 0] ELSE req1
       IN call' = Returned("LogMetric", req,
                           errorOnly(doRequest("POST", endpoints.RunsLogMetric,
                                               Body(req2, Requests.LogMetricRequest), net)), net)
                  @@ [now |-> now]
  /\ UNCHANGED <<BaseURL, AuthToken, Timeout, tc, store, server>>

LogParam ==
  Invoke("LogParam", {[RunID |-> r, Key |-> "lr", Value |-> "0.1"] : r \in RunIDs},
         LAMBDA req, net :
           errorOnly(doRequest("POST", endpoints.RunsLogParameter, Body(req, Requests.LogParamRequest), net)))

SetTag ==
  Invoke("SetTag", {[RunID |-> r, Key |-> "k", Value |-> "v"] : r \in RunIDs},
         LAMBDA req, net :
           errorOnly(doRequest("POST", endpoints.RunsSetTag, Body(req, Requests.SetTagRequest), net)))

DeleteTag ==
  Invoke("DeleteTag", {[runID |-> r, key |-> "k"] : r \in RunIDs},
         LAMBDA a, net :
           errorOnly(doRequest("POST", endpoints.RunsDeleteTag,
                               Body([run_id |-> a.runID, key |-> a.key],
                                    TMap(<<F("run_id", "run_id", FALSE, TString),
                                           F("key", "key", FALSE, TString)>>)), net)))

LogBatch ==
  Invoke("LogBatch", {[runID |-> "r1", metrics |-> m, params |-> SliceNil, tags |-> Slice(<<>>)] :
                        m \in {SliceNil} \cup
                              {Slice(<<[Key |-> "loss", Value |-> v, Timestamp |-> 42, Step |-> 0]>>) :
                                 v \in {Float(1), NaN}}},
         LAMBDA a, net :
           errorOnly(doRequest("POST", endpoints.RunsLogBatch,
                               Body([run_id |-> a.runID, metrics |-> a.metrics,
                                     params |-> a.params, tags |-> a.tags],
                                    TMap(<<F("run_id", "run_id", FALSE, TString),
                                           F("metrics", "metrics", FALSE, TSlice(Metric)),
                                           F("params", "params", FALSE, TSlice(Param)),
                                           F("tags", "tags", FALSE, TSlice(RunTag))>>)), net)))

LogModel ==
  Invoke("LogModel", {[RunID |-> r, ModelJSON |-> "{}"] : r \in RunIDs},
         LAMBDA req, net :
           errorOnly(doRequest("POST", endpoints.RunsLogModel, Body(req, Requests.LogModelRequest), net)))

LogInputs ==
  Invoke("LogInputs", {[RunID |-> r, Datasets |-> SliceNil, ModelInputs |-> SliceNil] : r \in RunIDs},
         LAMBDA req, net :
           errorOnly(doRequest("POST", endpoints.RunsLogInputs, Body(req, Requests.LogInputsRequest), net)))

GetMetricHistory ==
  Invoke("GetMetricHistory", {[RunUUID |-> "r1", MetricKey |-> "loss", MaxResults |-> n, PageToken |-> p] :
                                n \in MaxResultsValues, p \in PageTokens},
         LAMBDA req, net :
           decoded(Responses.GetMetricHistoryResponse,
                   doRequest("GET",
                             endpointMetricsGetHistory(req.RunUUID, req.MetricKey,
                                                       req.MaxResults, req.PageToken),
                             NoBody, net)))

ListArtifacts ==
  Invoke("ListArtifacts",
         {[runID |-> "r1", path |-> pa, pageToken |-> p] : pa \in {"", "a/b"}, p \in PageTokens},
         LAMBDA a, net :
           decoded(Responses.ListArtifactsResponse,
                   doRequest("GET", endpointArtifactsList(a.runID, a.path, a.pageToken),
                             NoBody, net)))

(***************************************************************************)
(* Models API                                                              *)
(***************************************************************************)
ModelNames == {"m1"}
CreateRegisteredModel ==
  Invoke("CreateRegisteredModel",
         {[Name |-> n, Description |-> "", Tags |-> SliceNil] : n \in ModelNames},
         LAMBDA req, net :
           decoded(Responses.CreateRegisteredModelResponse,
                   doRequest("POST", endpoints.RegisteredModelsCreate,
                             Body(req, Requests.CreateRegisteredModelRequest), net)))

GetRegisteredModel ==
  Invoke("GetRegisteredModel", {[name |-> n] : n \in ModelNames},
         LAMBDA a, net :
           decoded(Responses.GetRegisteredModelResponse,
                   doRequest("POST", endpoints.RegisteredModelsGet,
                             Body([Name |-> a.name], Requests.GetRegisteredModelRequest), net)))

ListRegisteredModels ==
  Invoke("ListRegisteredModels",
         {[maxResults |-> n, pageToken |-> p] : n \in MaxResultsValues, p \in PageTokens},
         LAMBDA a, net :
           decoded(ListRegisteredModelsResponse,
                   doRequest("GET",
                             endpointRegisteredModelsListWithParams(a.maxResults, a.pageToken),
                             NoBody, net)))

UpdateRegisteredModel ==
  Invoke("UpdateRegisteredModel",
         {[name |-> n, description |-> d] : n \in ModelNames, d \in {"", "text"}},
         LAMBDA a, net :
           errorOnly(doRequest("PATCH", endpoints.RegisteredModelsUpdate,
                               IF a.description # ""
                               THEN Body([name |-> a.name, description |-> a.description],
                                         TMap(<<F("name", "name", FALSE, TString),
                                                F("description", "description", FALSE, TString)>>))
                               ELSE Body([name |-> a.name], TMap(<<F("name", "name", FALSE, TString)>>)),
                               net)))

DeleteRegisteredModel ==
  Invoke("DeleteRegisteredModel", {[name |-> n] : n \in ModelNames},
         LAMBDA a, net :
           errorOnly(doRequest("POST", endpoints.RegisteredModelsDelete,
                               Body([name |-> a.name], TMap(<<F("name", "name", FALSE, TString)>>)), net)))

CreateModelVersion ==
  Invoke("CreateModelVersion",
         {[Name |-> n, Source |-> "runs:/r1/model", RunID |-> "", Tags |-> SliceNil,
           Description |-> ""] : n \in ModelNames},
         LAMBDA req, net :
           decoded(Responses.CreateModelVersionResponse,
                   doRequest("POST", endpoints.ModelVersionsCreate,
                             Body(req, Requests.CreateModelVersionRequest), net)))

GetModelVersion ==
  Invoke("GetModelVersion", {[name |-> n, version |-> "1"] : n \in ModelNames},
         LAMBDA a, net :
           decoded(Responses.GetModelVersionResponse,
                   doRequest("POST", endpoints.ModelVersionsGetBase,
                             Body([Name |-> a.name, Version |-> a.version],
                                  Requests.GetModelVersionRequest), net)))

ListModelVersions ==
  Invoke("ListModelVersions",
         {[name |-> nm, maxResults |-> n, pageToken |-> p] :
            nm \in ModelNames, n \in MaxResultsValues, p \in PageTokens},
         LAMBDA a, net :
           decoded(ListModelVersionsResponse,
                   doRequest("GET",
                             endpointModelVersionsListWithParams(a.name, a.maxResults, a.pageToken),
                             NoBody, net)))

\* the map of UpdateModelVersion: description and stage are set when non-empty
updateModelVersionBody(a) ==
  LET fs == <<F("name", "name", FALSE, TString), F("version", "version", FALSE, TString)>>
            \o (IF a.description # ""
                THEN <<F("description", "description", FALSE, TString)>> ELSE <<>>)
            \o (IF a.stage # "" THEN <<F("stage", "stage", FALSE, TString)>> ELSE <<>>)
  IN Body([k \in {fs[i].name : i \in DOMAIN fs} |-> a[k]], TMap(fs))

UpdateModelVersion ==
  Invoke("UpdateModelVersion",
         {[name |-> n, version |-> "1", description |-> d, stage |-> st] :
            n \in ModelNames, d \in {"", "text"}, st \in {"", "Production"}},
         LAMBDA a, net :
           errorOnly(doRequest("PATCH", endpoints.ModelVersionsUpdate,
                               updateModelVersionBody(a), net)))

DeleteModelVersion ==
  Invoke("DeleteModelVersion", {[name |-> n, version |-> "1"] : n \in ModelNames},
         LAMBDA a, net :
           errorOnly(doRequest("POST", endpoints.ModelVersionsDeleteBase,
                               Body([name |-> a.name, version |-> a.version],
                                    TMap(<<F("name", "name", FALSE, TString), F("version", "version", FALSE, TString)>>)), net)))

\* the map of TransitionModelVersionStage: archive_existing_versions is set
\* when non-empty
transitionStageBody(a) ==
  LET fs == <<F("name", "name", FALSE, TString), F("version", "version", FALSE, TString),
              F("stage", "stage", FALSE, TString)>>
            \o (IF a.archive_existing_versions # ""
                THEN <<F("archive_existing_versions", "archive_existing_versions", FALSE, TString)>>
                ELSE <<>>)
  IN Body([k \in {fs[i].name : i \in DOMAIN fs} |-> a[k]], TMap(fs))

TransitionModelVersionStage ==
  Invoke("TransitionModelVersionStage",
         {[name |-> n, version |-> "1", stage |-> "Production", archive_existing_versions |-> x] :
            n \in ModelNames, x \in {"", "true"}},
         LAMBDA a, net :
           decoded(Responses.GetModelVersionResponse,
                   doRequest("POST", endpoints.ModelVersionsTransitionStage,
                             transitionStageBody(a), net)))

RenameRegisteredModel ==
  Invoke("RenameRegisteredModel", {[Name |-> n, NewName |-> "m2"] : n \in ModelNames},
         LAMBDA req, net :
           decoded(Responses.RenameRegisteredModelResponse,
                   doRequest("POST", endpoints.RegisteredModelsRename,
                             Body(req, Requests.RenameRegisteredModelRequest), net)))

GetLatestModelVersions ==
  Invoke("GetLatestModelVersions",
         {[Name |-> n, Stages |-> st] :
            n \in ModelNames, st \in {SliceNil, Slice(<<"Production", "Staging">>)}},
         LAMBDA req, net :
           decoded(Responses.GetLatestModelVersionsResponse,
                   doRequest("GET",
                             endpointRegisteredModelsGetLatestVersionsWithParams(req.Name, req.Stages),
                             NoBody, net)))

SearchModelVersions ==
  Invoke("SearchModelVersions", {[Filter |-> f, MaxResults |-> n, OrderBy |-> SliceNil, PageToken |-> p] :
                                   f \in {"", "name='m1'"}, n \in MaxResultsValues, p \in PageTokens},
         LAMBDA req, net :
           IF req.MaxResults <= 0
           THEN failedLocally(Errorf("max_results must be greater than zero when provided"))
           ELSE decoded(Responses.SearchModelVersionsResponse,
                        doRequest("GET",
                                  endpointModelVersionsSearchWithParams(
                                    req.Filter, req.MaxResults, req.OrderBy, req.PageToken),
                                  NoBody, net)))

GetDownloadURIs ==
  Invoke("GetDownloadURIs", {[Name |-> n, Version |-> "1", Paths |-> SliceNil] : n \in ModelNames},
         LAMBDA req, net :
           decoded(Responses.GetDownloadURIsResponse,
                   doRequest("POST", endpoints.ModelVersionsGetDownloadURIs,
                             Body(req, Requests.GetDownloadURIsRequest), net)))

SearchRegisteredModels ==
  Invoke("SearchRegisteredModels", {[Filter |-> f, MaxResults |-> n, OrderBy |-> SliceNil, PageToken |-> p] :
                                      f \in {"", "name='m1'"}, n \in MaxResultsValues, p \in PageTokens},
         LAMBDA req, net :
           IF req.MaxResults <= 0
           THEN failedLocally(Errorf("max_results must be greater than zero when provided"))
           ELSE decoded(Responses.SearchRegisteredModelsResponse,
                        doRequest("POST", endpoints.RegisteredModelsSearch,
                                  Body(req, Requests.SearchRegisteredModelsRequest), net)))

SetRegisteredModelTag ==
  Invoke("SetRegisteredModelTag", {[Name |-> n, Key |-> "k", Value |-> "v"] : n \in ModelNames},
         LAMBDA req, net :
           errorOnly(doRequest("POST", endpoints.RegisteredModelsSetTag,
                               Body(req, Requests.SetRegisteredModelTagRequest), net)))

SetModelVersionTag ==
  Invoke("SetModelVersionTag",
         {[Name |-> n, Version |-> "1", Key |-> "k", Value |-> "v"] : n \in ModelNames},
         LAMBDA req, net :
           errorOnly(doRequest("POST", endpoints.ModelVersionsSetTag,
                               Body(req, Requests.SetModelVersionTagRequest), net)))

DeleteRegisteredModelTag ==
  Invoke("DeleteRegisteredModelTag", {[Name |-> n, Key |-> "k"] : n \in ModelNames},
         LAMBDA req, net :
           errorOnly(doRequest("POST", endpoints.RegisteredModelsDeleteTagBase,
                               Body([name |-> req.Name, key |-> req.Key],
                                    TMap(<<F("name", "name", FALSE, TString),
                                           F("key", "key", FALSE, TString)>>)), net)))

DeleteModelVersionTag ==
  Invoke("DeleteModelVersionTag", {[Name |-> n, Version |-> "1", Key |-> "k"] : n \in ModelNames},
         LAMBDA req, net :
           errorOnly(doRequest("POST", endpoints.ModelVersionsDeleteTagBase,
                               Body([name |-> req.Name, version |-> req.Version, key |-> req.Key],
                                    TMap(<<F("name", "name", FALSE, TString),
                                           F("version", "version", FALSE, TString),
                                           F("key", "key", FALSE, TString)>>)), net)))

SetRegisteredModelAlias ==
  Invoke("SetRegisteredModelAlias",
         {[Name |-> n, Alias |-> "champion", Version |-> "1"] : n \in ModelNames},
         LAMBDA req, net :
           errorOnly(doRequest("POST", endpoints.RegisteredModelsAliasBase,
                               Body(req, Requests.SetRegisteredModelAliasRequest), net)))

DeleteRegisteredModelAlias ==
  Invoke("DeleteRegisteredModelAlias",
         {[Name |-> n, Alias |-> "champion", Version |-> ""] : n \in ModelNames},
         LAMBDA req, net :
           errorOnly(doRequest("POST", endpoints.RegisteredModelsAliasBase,
                               Body([name |-> req.Name, alias |-> req.Alias],
                                    TMap(<<F("name", "name", FALSE, TString),
                                           F("alias", "alias", FALSE, TString)>>)), net)))

GetModelVersionByAlias ==
  Invoke("GetModelVersionByAlias", {[Name |-> n, Alias |-> "champion"] : n \in ModelNames},
         LAMBDA req, net :
           decoded(Responses.GetModelVersionByAliasResponse,
                   doRequest("POST", endpoints.RegisteredModelsGetModelVersionByAliasBase,
                             Body(req, Requests.GetModelVersionByAliasRequest), net)))

(***************************************************************************)
(* Server endpoints                                                        *)
(***************************************************************************)
\* the byte value of a printable character; the printable ASCII characters
\* in byte order are 32 (space) to 95 and 97 to 126
Ord(c) ==
  LET AsciiLow == " !\"#$%&'()*+,-./0123456789:;<=>?@ABCDEFGHIJKLMNOPQRSTUVWXYZ[\\]^_"
      AsciiHigh == "abcdefghijklmnopqrstuvwxyz{|}~"
  IN IF \E i \in 1..Len(AsciiLow) : At(AsciiLow, i) = c
     THEN 31 + (CHOOSE i \in 1..Len(AsciiLow) : At(AsciiLow, i) = c)
     ELSE 96 + (CHOOSE i \in 1..Len(AsciiHigh) : At(AsciiHigh, i) = c)

RECURSIVE StringLess(_, _)
\* Go's < on strings: byte-wise lexicographic order
StringLess(a, b) ==
  IF Len(b) = 0 THEN FALSE
  ELSE IF Len(a) = 0 THEN TRUE
  ELSE IF At(a, 1) = At(b, 1)
  THEN StringLess(SubSeq(a, 2, Len(a)), SubSeq(b, 2, Len(b)))
  ELSE Ord(At(a, 1)) < Ord(At(b, 1))

\* GetHealth
GetHealth(net) == doTextRequest("GET", endpoints.Health, net)

\* GetVersion
GetVersion(net) == doTextRequest("GET", endpoints.Version, net)

minSupportedVersion == "3.8.0"

\* (variant: the version is requested whatever the health text)
CheckServerHealthTextIgnored(net1, net2) ==
  LET health == GetHealth(net1)
      version == GetVersion(net2)
  IN IF health.err # NoError
     THEN [err |-> Wrap("failed to get server health: ", health.err),
           sent |-> health.sent, resps |-> <<net1>>]
     ELSE IF version.err # NoError
     THEN [err |-> Wrap("failed to get server version: ", version.err),
           sent |-> health.sent \o version.sent, resps |-> <<net1, net2>>]
     ELSE IF version.text = ""
     THEN [err |-> Errorf("server version is empty"),
           sent |-> health.sent \o version.sent, resps |-> <<net1, net2>>]
     ELSE IF StringLess(version.text, minSupportedVersion)
     THEN [err |-> Errorf("server version " \o version.text \o " is not supported, expected "
                          \o minSupportedVersion \o " or higher"),
           sent |-> health.sent \o version.sent, resps |-> <<net1, net2>>]
     ELSE [err |-> NoError, sent |-> health.sent \o version.sent, resps |-> <<net1, net2>>]

\* (variant: any non-empty version is accepted)
CheckServerAnyVersion(net1, net2) ==
  LET health == GetHealth(net1)
      version == GetVersion(net2)
  IN IF health.err # NoError
     THEN [err |-> Wrap("failed to get server health: ", health.err),
           sent |-> health.sent, resps |-> <<net1>>]
     ELSE IF health.text # "OK"
     THEN [err |-> Errorf("server health is not OK: " \o health.text),
           sent |-> health.sent, resps |-> <<net1>>]
     ELSE IF version.err # NoError
     THEN [err |-> Wrap("failed to get server version: ", version.err),
           sent |-> health.sent \o version.sent, resps |-> <<net1, net2>>]
     ELSE IF version.text = ""
     THEN [err |-> Errorf("server version is empty"),
           sent |-> health.sent \o version.sent, resps |-> <<net1, net2>>]
     ELSE [err |-> NoError, sent |-> health.sent \o version.sent, resps |-> <<net1, net2>>]

\* CheckServer: net1 answers the health request, net2 the version request
CheckServer(net1, net2) ==
  LET health == GetHealth(net1)
      version == GetVersion(net2)
  IN IF health.err # NoError
     THEN [err |-> Wrap("failed to get server health: ", health.err),
           sent |-> health.sent, resps |-> <<net1>>]
     ELSE IF health.text # "OK"
     THEN [err |-> Errorf("server health is not OK: " \o health.text),
           sent |-> health.sent, resps |-> <<net1>>]
     ELSE IF version.err # NoError
     THEN [err |-> Wrap("failed to get server version: ", version.err),
           sent |-> health.sent \o version.sent, resps |-> <<net1, net2>>]
     ELSE IF version.text = ""
     THEN [err |-> Errorf("server version is empty"),
           sent |-> health.sent \o version.sent, resps |-> <<net1, net2>>]
     ELSE IF StringLess(version.text, minSupportedVersion)
     THEN [err |-> Errorf("server version " \o version.text \o " is not supported, expected "
                          \o minSupportedVersion \o " or higher"),
           sent |-> health.sent \o version.sent, resps |-> <<net1, net2>>]
     ELSE [err |-> NoError, sent |-> health.sent \o version.sent, resps |-> <<net1, net2>>]

\* a call of GetHealth
CallGetHealth ==
  /\ call = NoCall
  /\ \E net \in NetOutcomes :
       LET r == GetHealth(net)
       IN call' = Returned("GetHealth", <<>>, [value |-> Ptr(r.text), err |-> r.err, sent |-> r.sent], net)
  /\ UNCHANGED <<BaseURL, AuthToken, Timeout, tc, store, server>>

\* a call of GetVersion
CallGetVersion ==
  /\ call = NoCall
  /\ \E net \in NetOutcomes :
       LET r == GetVersion(net)
       IN call' = Returned("GetVersion", <<>>, [value |-> Ptr(r.text), err |-> r.err, sent |-> r.sent], net)
  /\ UNCHANGED <<BaseURL, AuthToken, Timeout, tc, store, server>>

\* a call of CheckServer
CallCheckServer ==
  /\ call = NoCall
  /\ \E net1 \in NetOutcomes, net2 \in NetOutcomes :
       LET r == CheckServer(net1, net2)
       IN call' = [op |-> "CheckServer", req |-> <<>>, sent |-> r.sent,
                   resps |-> SubSeq(r.resps, 1, Len(r.sent)),
                   value |-> Void, err |-> r.err]
  /\ UNCHANGED <<BaseURL, AuthToken, Timeout, tc, store, server>>

Next ==
  \/ SetAuthToken
  \/ SetTimeout
  \/ Discard
  \/ CreateExperiment
  \/ GetExperiment
  \/ GetExperimentByName
  \/ DeleteExperiment
  \/ RestoreExperiment
  \/ UpdateExperiment
  \/ SetExperimentTag
  \/ DeleteExperimentTag
  \/ SearchExperiments
  \/ CreateRun
  \/ GetRun
  \/ SearchRuns
  \/ UpdateRun
  \/ DeleteRun
  \/ RestoreRun
  \/ LogMetric
  \/ LogParam
  \/ SetTag
  \/ DeleteTag
  \/ LogBatch
  \/ LogModel
  \/ LogInputs
  \/ GetMetricHistory
  \/ ListArtifacts
  \/ CreateRegisteredModel
  \/ GetRegisteredModel
  \/ ListRegisteredModels
  \/ UpdateRegisteredModel
  \/ DeleteRegisteredModel
  \/ CreateModelVersion
  \/ GetModelVersion
  \/ ListModelVersions
  \/ UpdateModelVersion
  \/ DeleteModelVersion
  \/ TransitionModelVersionStage
  \/ RenameRegisteredModel
  \/ GetLatestModelVersions
  \/ SearchModelVersions
  \/ GetDownloadURIs
  \/ SearchRegisteredModels
  \/ SetRegisteredModelTag
  \/ SetModelVersionTag
  \/ DeleteRegisteredModelTag
  \/ DeleteModelVersionTag
  \/ SetRegisteredModelAlias
  \/ DeleteRegisteredModelAlias
  \/ GetModelVersionByAlias
  \/ CallGetHealth
  \/ CallGetVersion
  \/ CallCheckServer

Spec == Init /\ [][Next]_vars

(***************************************************************************)
(* The JSON round trip of the typed records: a value is encoded as         *)
(* doRequest encodes a request body and decoded as unmarshalResponse       *)
(* decodes a response body.                                                *)
(***************************************************************************)
\* the request and response types of the surface, by name
SurfaceTypes ==
  Requests @@ Responses
  @@ [ListRegisteredModelsResponse |-> ListRegisteredModelsResponse,
      ListModelVersionsResponse |-> ListModelVersionsResponse]

RECURSIVE Variants(_)
\* values of a Go type: the zero value and the values that differ from it in
\* one field; a list is nil or holds 0..MaxElems copies of an element
Variants(ty) ==
  CASE ty.k = "string" -> {"", "a"}
    [] ty.k = "int" -> {0, 7}
    [] ty.k = "float64" -> {Float(0), Float(1), NaN}
    [] ty.k = "bool" -> {FALSE, TRUE}
    [] ty.k = "slice" ->
         {SliceNil} \cup {Slice([i \in 1..n |-> x]) : n \in 0..MaxElems, x \in Variants(ty.elem)}
    [] ty.k = "struct" ->
         {Zero(ty)} \cup
         UNION {{[Zero(ty) EXCEPT ![ty.fields[i].name] = x] : x \in Variants(ty.fields[i].ty)} :
                  i \in DOMAIN ty.fields}

\* json.Marshal of a value of a surface type followed by json.Unmarshal of
\* the result into a fresh value of the same type
RoundTrip ==
  /\ call = NoCall
  /\ \E T \in DOMAIN SurfaceTypes :
       \E v \in Variants(SurfaceTypes[T]) :
         LET m == Marshal(v, SurfaceTypes[T])
         IN call' = [op |-> "RoundTrip", T |-> T, v |-> v, encoded |-> m,
                     decoded |-> IF m.err THEN Nil
                                 ELSE Ptr(Unmarshal(m.j, SurfaceTypes[T]))]
  /\ UNCHANGED <<BaseURL, AuthToken, Timeout, tc, store, server>>

CodecNext ==
  \/ RoundTrip
  \/ Discard

CodecSpec == Init /\ [][CodecNext]_vars

(***************************************************************************)
(* Properties of the request executors and the typed operations.          *)
(***************************************************************************)
\* the declared response type of each operation that returns a value
ResponseTypeOf ==
  [CreateExperiment |-> Responses.CreateExperimentResponse,
   GetExperiment |-> Responses.GetExperimentResponse,
   GetExperimentByName |-> Responses.GetExperimentResponse,
   SearchExperiments |-> Responses.SearchExperimentsResponse,
   CreateRun |-> Responses.CreateRunResponse,
   GetRun |-> Responses.GetRunResponse,
   SearchRuns |-> Responses.SearchRunsResponse,
   UpdateRun |-> Responses.UpdateRunResponse,
   GetMetricHistory |-> Responses.GetMetricHistoryResponse,
   ListArtifacts |-> Responses.ListArtifactsResponse,
   CreateRegisteredModel |-> Responses.CreateRegisteredModelResponse,
   GetRegisteredModel |-> Responses.GetRegisteredModelResponse,
   ListRegisteredModels |-> ListRegisteredModelsResponse,
   CreateModelVersion |-> Responses.CreateModelVersionResponse,
   GetModelVersion |-> Responses.GetModelVersionResponse,
   ListModelVersions |-> ListModelVersionsResponse,
   TransitionModelVersionStage |-> Responses.GetModelVersionResponse,
   RenameRegisteredModel |-> Responses.RenameRegisteredModelResponse,
   GetLatestModelVersions |-> Responses.GetLatestModelVersionsResponse,
   SearchModelVersions |-> Responses.SearchModelVersionsResponse,
   GetDownloadURIs |-> Responses.GetDownloadURIsResponse,
   SearchRegisteredModels |-> Responses.SearchRegisteredModelsResponse,
   GetModelVersionByAlias |-> Responses.GetModelVersionByAliasResponse]

ValueOperations == DOMAIN ResponseTypeOf

ErrorOnlyOperations ==
  {"DeleteExperiment", "RestoreExperiment", "UpdateExperiment", "SetExperimentTag",
   "DeleteExperimentTag", "DeleteRun", "RestoreRun", "LogMetric", "LogParam", "SetTag",
   "DeleteTag", "LogBatch", "LogModel", "LogInputs", "UpdateRegisteredModel",
   "DeleteRegisteredModel", "UpdateModelVersion", "DeleteModelVersion",
   "SetRegisteredModelTag", "SetModelVersionTag", "DeleteRegisteredModelTag",
   "DeleteModelVersionTag", "SetRegisteredModelAlias", "DeleteRegisteredModelAlias"}

\* the operations built on doRequest
TypedOperations == ValueOperations \cup ErrorOnlyOperations
\* the operations built on doTextRequest, one request each
TextOperations == {"GetHealth", "GetVersion"}

\* an operation has returned and its result is held by the caller
Called == call # NoCall
\* the last request of the call was answered with a response that was read
Answered ==
  /\ Called
  /\ Len(call.resps) > 0
  /\ call.resps[Len(call.resps)].k = "response"
LastResponse == call.resps[Len(call.resps)]
Success(StatusCode) == StatusCode \in 200..299
\* the error of the three search validations
validationError == Errorf("max_results must be greater than zero when provided")

\* C1 as stated: a typed operation answered with a status in 200-299 returns
\* a value and a nil error whatever the body; answered with any other status
\* it returns no value and an APIError carrying that status.
C1_AnySuccessBodyYieldsValue ==
  (Answered /\ call.op \in TypedOperations) =>
    IF Success(LastResponse.StatusCode)
    THEN call.err = NoError /\ call.value # Nil
    ELSE /\ call.value \in {Nil, Void}
         /\ IsAPIError(call.err).ok
         /\ IsAPIError(call.err).apiErr.StatusCode = LastResponse.StatusCode

\* C1 (amended): a typed operation answered with a status in 200-299 whose
\* body decodes into the operation's response type returns the value decoded
\* from the body and a nil error (an operation that returns only an error
\* returns nil); answered with any other status it returns no value and an
\* APIError whose StatusCode is the status of the response.
C1_StatusDecidesOutcome ==
  (Answered /\ call.op \in TypedOperations) =>
    IF Success(LastResponse.StatusCode)
    THEN IF call.op \in ErrorOnlyOperations
         THEN call.err = NoError
         ELSE LET u == Unmarshal(Parse(LastResponse.Body), ResponseTypeOf[call.op])
              IN ~u.err => (call.err = NoError /\ call.value = Ptr(u.v))
    ELSE /\ call.value \in {Nil, Void}
         /\ IsAPIError(call.err).ok
         /\ IsAPIError(call.err).apiErr.StatusCode = LastResponse.StatusCode

\* CreateExperiment answered 200 with an experiment id has returned it
C1_Witness ==
  /\ Answered
  /\ call.op = "CreateExperiment"
  /\ LastResponse.StatusCode = 200
  /\ call.err = NoError
  /\ call.value = Ptr([ExperimentID |-> "7"])

\* C2: every request handed to the network by a call (by doRequest and by
\* doTextRequest) carries "Authorization: Bearer <token>" when the client's
\* token is non-empty at the time of the call, and no Authorization header
\* when it is empty.
C2_AuthorizationHeader ==
  [][(call = NoCall /\ call' # NoCall) =>
       \A i \in DOMAIN call'.sent :
         IF AuthToken # ""
         THEN /\ "Authorization" \in DOMAIN call'.sent[i].header
              /\ call'.sent[i].header["Authorization"] = "Bearer " \o AuthToken
         ELSE "Authorization" \notin DOMAIN call'.sent[i].header]_vars

\* a request went out with the bearer token of the client
C2_Witness ==
  /\ Called
  /\ call.op = "GetRun"
  /\ Len(call.sent) = 1
  /\ "Authorization" \in DOMAIN call.sent[1].header
  /\ call.sent[1].header["Authorization"] = "Bearer secret-1"

\* C3: when a response outside 200-299 has a body that is a JSON object with
\* string members error_code c and message m, the APIError returned through
\* doRequest has ErrorCode c and Message m.
C3_ErrorCodeAndMessageFromBody ==
  (Answered /\ call.op \in TypedOperations /\ ~Success(LastResponse.StatusCode)) =>
    LET j == Parse(LastResponse.Body)
    IN (/\ j.t = "object"
        /\ {"error_code", "message"} \subseteq DOMAIN j.o
        /\ j.o["error_code"].t = "string"
        /\ j.o["message"].t = "string")
       => /\ IsAPIError(call.err).ok
          /\ call.err.ErrorCode = j.o["error_code"].s
          /\ call.err.Message = j.o["message"].s

\* the 404 of the example: RESOURCE_DOES_NOT_EXIST, "Run not found"
C3_Witness ==
  /\ Answered
  /\ call.op = "GetRun"
  /\ LastResponse.StatusCode = 404
  /\ IsAPIError(call.err).ok
  /\ call.err.ErrorCode = "RESOURCE_DOES_NOT_EXIST"
  /\ call.err.Message = "Run not found"

\* a body has the JSON error shape: null, or an object whose error_code and
\* message, when present, are strings or null
ErrorShaped(j) ==
  \/ j.t = "null"
  \/ /\ j.t = "object"
     /\ \A key \in {"error_code", "message"} \cap DOMAIN j.o : j.o[key].t \in {"string", "null"}

\* C4: when a response outside 200-299 has a body that does not parse as the
\* JSON error shape, the APIError returned through doRequest has the raw body
\* text as its Message and an empty ErrorCode.
C4_RawBodyAsMessage ==
  (/\ Answered
   /\ call.op \in TypedOperations
   /\ ~Success(LastResponse.StatusCode)
   /\ ~ErrorShaped(Parse(LastResponse.Body)))
  => /\ IsAPIError(call.err).ok
     /\ call.err.Message = LastResponse.Body
     /\ call.err.ErrorCode = ""

\* the 500 of the example: "plain text failure"
C4_Witness ==
  /\ Answered
  /\ call.op = "DeleteRun"
  /\ LastResponse.StatusCode = 500
  /\ LastResponse.Body = "plain text failure"
  /\ IsAPIError(call.err).ok
  /\ call.err.Message = "plain text failure"
  /\ call.err.ErrorCode = ""

C6_FilterOnlySearchIsSent ==
  (/\ Called
   /\ call.op \in {"SearchRuns", "SearchModelVersions"}
   /\ call.req.Filter # ""
   /\ call.req.MaxResults = 0
   /\ call.req.PageToken = ""
   /\ ~stringContainsCTLByte(BaseURL))
  => /\ Len(call.sent) = 1
     /\ call.err # validationError

\* C7: whenever the last request of a call of any public operation,
\* CheckServer included, is answered with a status outside 200-299, the error
\* returned is the APIError itself: IsAPIError yields it, with the status and
\* the body of the response.
C7_APIErrorReachesCaller ==
  (Answered /\ ~Success(LastResponse.StatusCode)) =>
    /\ IsAPIError(call.err).ok
    /\ IsAPIError(call.err).apiErr.StatusCode = LastResponse.StatusCode
    /\ IsAPIError(call.err).apiErr.ResponseBody = LastResponse.Body

\* C8: an error that IsAPIError accepts is returned only by a call whose last
\* request was answered with a status outside [200,300), never after a
\* transport, read, serialization, validation or decode failure; and as long
\* as the caller holds it, no operation on the client changes it.
C8_APIErrorOnlyFromResponse ==
  /\ []((Called /\ IsAPIError(call.err).ok) =>
          (Answered /\ ~Success(LastResponse.StatusCode)))
  /\ [][(Called /\ IsAPIError(call.err).ok /\ call' # NoCall) => call'.err = call.err]_vars

\* GetVersion answered 101 has returned an APIError
C8_Witness ==
  /\ Answered
  /\ call.op = "GetVersion"
  /\ LastResponse.StatusCode = 101
  /\ IsAPIError(call.err).ok
  /\ call.err.StatusCode = 101

\* C9: a value-returning operation answered with a status in 200-299 and a
\* body that does not decode into its response type returns no value and a
\* decode error, which is neither an APIError nor the error of a failed
\* round trip.
C9_DecodeErrorIsDistinct ==
  (/\ Answered
   /\ call.op \in ValueOperations
   /\ Success(LastResponse.StatusCode)
   /\ Unmarshal(Parse(LastResponse.Body), ResponseTypeOf[call.op]).err)
  => /\ call.value = Nil
     /\ call.err.kind = "wrapError"
     /\ call.err.msg = "failed to unmarshal response: "
     /\ ~IsAPIError(call.err).ok
     /\ call.err \notin {executeFailed, readFailed}

\* CreateExperiment answered 200 with a number for the experiment id
C9_Witness ==
  /\ Answered
  /\ call.op = "CreateExperiment"
  /\ LastResponse.StatusCode = 200
  /\ LastResponse.Body = "{\"experiment_id\":7}"
  /\ call.value = Nil
  /\ call.err.kind = "wrapError"

\* C10 as stated: every call of a single-endpoint operation performs exactly
\* one HTTP call.
C10_ExactlyOneCallAlways ==
  (Called /\ call.op \in TypedOperations \cup TextOperations) => Len(call.sent) = 1

\* the response carries a next-page token
HasNextPageToken(net) ==
  /\ net.k = "response"
  /\ Parse(net.Body).t = "object"
  /\ "next_page_token" \in DOMAIN Parse(net.Body).o

\* C10 (amended): every call of a single-endpoint operation performs at most
\* one HTTP call, and none exactly when it fails locally before sending (the
\* body cannot be serialized, the request cannot be built, or a search
\* rejects its max-results); a transport failure or a response outside
\* 200-299 is not followed by a second request, and a response carrying a
\* next-page token is not followed by a request for the next page.
C10_AtMostOneCall ==
  (Called /\ call.op \in TypedOperations \cup TextOperations) =>
    /\ Len(call.sent) <= 1
    /\ Len(call.sent) = 0 <=> call.err \in {marshalFailed, createFailed, validationError}
    /\ Len(call.resps) = Len(call.sent)
    /\ (call.err # NoError /\ call.err \notin {marshalFailed, createFailed, validationError})
         => Len(call.sent) = 1
    /\ (Len(call.resps) = 1 /\ HasNextPageToken(call.resps[1])) => Len(call.sent) = 1

\* SearchRuns got a page with a next-page token and stopped after one request
C10_Witness ==
  /\ Answered
  /\ call.op = "SearchRuns"
  /\ LastResponse.StatusCode = 200
  /\ HasNextPageToken(LastResponse)
  /\ call.err = NoError
  /\ call.value.v.NextPageToken = "tok2"
  /\ Len(call.sent) = 1

(***************************************************************************)
(* Properties of pagination, defaults and the server check.                *)
(***************************************************************************)
\* the list and search operations, which take a page token
PagedOperations ==
  {"SearchRuns", "SearchExperiments", "SearchRegisteredModels", "SearchModelVersions",
   "ListRegisteredModels", "ListModelVersions", "GetMetricHistory", "ListArtifacts"}
\* those of them that send the token in a JSON body, with POST
BodyPagedOperations == {"SearchRuns", "SearchExperiments", "SearchRegisteredModels"}
\* the page token the caller supplied
PageTokenGiven ==
  IF "PageToken" \in DOMAIN call.req THEN call.req.PageToken ELSE call.req.pageToken

\* the byte a percent-escape stands for (the inverse of url.QueryEscape)
unescapeByte(e) ==
  CASE e = "%27" -> "'"
    [] e = "%3D" -> "="
    [] e = "%2F" -> "/"
    [] e = "%2B" -> "+"
    [] e = "%26" -> "&"
    [] e = "%25" -> "%"
    [] e = "%3A" -> ":"
    [] e = "%3F" -> "?"
    [] e = "%23" -> "#"
    [] OTHER -> "?"

RECURSIVE QueryUnescape(_)
\* what a server reads from an escaped query value
QueryUnescape(s) ==
  IF Len(s) = 0 THEN ""
  ELSE IF At(s, 1) = "+" THEN " " \o QueryUnescape(SubSeq(s, 2, Len(s)))
  ELSE IF At(s, 1) = "%" /\ Len(s) >= 3
       THEN unescapeByte(SubSeq(s, 1, 3)) \o QueryUnescape(SubSeq(s, 4, Len(s)))
  ELSE At(s, 1) \o QueryUnescape(SubSeq(s, 2, Len(s)))

\* the values a server reads for the query parameter key of url
QueryValues(url, key) ==
  LET k == key \o "="
      starts == {i \in 2..Len(url) : /\ i + Len(k) - 1 <= Len(url)
                                     /\ At(url, i - 1) \in {"?", "&"}
                                     /\ SubSeq(url, i, i + Len(k) - 1) = k}
  IN {LET from == i + Len(k)
          amps == {j \in from..Len(url) : At(url, j) = "&"}
          to == IF amps = {} THEN Len(url)
                ELSE (CHOOSE j \in amps : \A m \in amps : j <= m) - 1
      IN QueryUnescape(SubSeq(url, from, to)) : i \in starts}

\* C11 as stated: every list/search call made with a non-empty page token
\* that sends a request carries the token as the page_token query parameter
\* of the request URL.
C11_PageTokenInQuery ==
  (Called /\ call.op \in PagedOperations /\ PageTokenGiven # "" /\ Len(call.sent) > 0) =>
    QueryValues(call.sent[1].url, "page_token") = {PageTokenGiven}

\* C11 (amended): a list/search call made with a non-empty page token forwards
\* the token unchanged in the one request it sends: as the page_token query
\* parameter (URL-escaped) for the GET operations, as the page_token field of
\* the JSON body for the POST searches; it sends no request only when the
\* request cannot be built or a search rejects a non-positive max_results.
C11_PageTokenForwarded ==
  (Called /\ call.op \in PagedOperations /\ PageTokenGiven # "") =>
    IF Len(call.sent) = 0
    THEN \/ call.err = createFailed
         \/ /\ call.op \in {"SearchRuns", "SearchExperiments", "SearchRegisteredModels",
                            "SearchModelVersions"}
            /\ call.req.MaxResults <= 0
            /\ call.err = validationError
    ELSE /\ Len(call.sent) = 1
         /\ IF call.op \in BodyPagedOperations
            THEN /\ call.sent[1].method = "POST"
                 /\ "page_token" \in DOMAIN call.sent[1].body.o
                 /\ call.sent[1].body.o.page_token = JStr(PageTokenGiven)
                 /\ QueryValues(call.sent[1].url, "page_token") = {}
            ELSE /\ call.sent[1].method = "GET"
                 /\ QueryValues(call.sent[1].url, "page_token") = {PageTokenGiven}

C11_Witness ==
  /\ Called
  /\ call.op = "ListModelVersions"
  /\ PageTokenGiven = "tok 1"
  /\ Len(call.sent) = 1
  /\ QueryValues(call.sent[1].url, "page_token") = {"tok 1"}

\* C12: a CreateRun call that sends its request sends start_time equal to the
\* clock reading taken by the call when the caller left StartTime zero, and
\* equal to the caller's value otherwise; decoding the sent body gives back
\* every other field of the request as the caller supplied it.
C12_StartTimeDefaulted ==
  (Called /\ call.op = "CreateRun" /\ Len(call.sent) > 0) =>
    LET expected == IF call.req.StartTime = 0 THEN call.now ELSE call.req.StartTime
        got == Unmarshal(call.sent[1].body, Requests.CreateRunRequest)
    IN /\ "start_time" \in DOMAIN call.sent[1].body.o
       /\ call.sent[1].body.o.start_time = JNum(expected)
       /\ ~got.err
       /\ got.v = [call.req EXCEPT !.StartTime = expected]

C12_Witness ==
  /\ Called
  /\ call.op = "CreateRun"
  /\ call.req.StartTime = 0
  /\ call.req.UserID = "u1"
  /\ call.now = 1501
  /\ Len(call.sent) = 1
  /\ call.sent[1].body.o.start_time = JNum(1501)

\* C13: a LogMetric call that sends its request sends timestamp equal to the
\* clock reading taken by the call when the caller left Timestamp zero, and
\* equal to the caller's value otherwise; decoding the sent body gives back
\* the run id, key, value and step as the caller supplied them.
C13_TimestampDefaulted ==
  (Called /\ call.op = "LogMetric" /\ Len(call.sent) > 0) =>
    LET expected == IF call.req.Timestamp = 0 THEN call.now ELSE call.req.Timestamp
        got == Unmarshal(call.sent[1].body, Requests.LogMetricRequest)
    IN /\ "timestamp" \in DOMAIN call.sent[1].body.o
       /\ call.sent[1].body.o.timestamp = JNum(expected)
       /\ ~got.err
       /\ got.v = [call.req EXCEPT !.Timestamp = expected]

C13_Witness ==
  /\ Called
  /\ call.op = "LogMetric"
  /\ call.req.Timestamp = 0
  /\ call.req.Step = 3
  /\ call.now = 1500
  /\ Len(call.sent) = 1
  /\ call.sent[1].body.o.timestamp = JNum(1500)
  /\ call.sent[1].body.o.step = JNum(3)

\* a text request of the call was answered with a status in 200-299
TextSucceeded(i) ==
  /\ Len(call.resps) >= i
  /\ call.resps[i].k = "response"
  /\ Success(call.resps[i].StatusCode)

\* C14: CheckServer returns nil exactly when the health request succeeds with
\* the body "OK", the version request succeeds with a non-empty body, and
\* that body is not below "3.8.0" in byte-wise string order; otherwise it
\* returns an error.
C14_CheckServerNilIff ==
  (Called /\ call.op = "CheckServer") =>
    ((call.err = NoError) <=>
       /\ TextSucceeded(1)
       /\ call.resps[1].Body = "OK"
       /\ TextSucceeded(2)
       /\ call.resps[2].Body # ""
       /\ ~StringLess(call.resps[2].Body, "3.8.0"))

C14_Witness ==
  /\ Called
  /\ call.op = "CheckServer"
  /\ call.err = NoError
  /\ Len(call.sent) = 2
  /\ call.resps[1].Body = "OK"
  /\ call.resps[2].Body = "3.8.0"

\* C15: GetHealth and GetVersion, answered with a status in 200-299, return
\* the body as a string unchanged and a nil error; answered with any other
\* status they return "" and an APIError whose StatusCode is the status,
\* whose ResponseBody and Message are the raw body and whose ErrorCode is
\* empty, also when the body is a JSON error object.
C15_TextBodyOrRawAPIError ==
  (Answered /\ call.op \in TextOperations) =>
    IF Success(LastResponse.StatusCode)
    THEN /\ call.value = Ptr(LastResponse.Body)
         /\ call.err = NoError
    ELSE /\ call.value = Ptr("")
         /\ IsAPIError(call.err).ok
         /\ call.err.StatusCode = LastResponse.StatusCode
         /\ call.err.ResponseBody = LastResponse.Body
         /\ call.err.Message = LastResponse.Body
         /\ call.err.ErrorCode = ""

C15_Witness ==
  /\ Answered
  /\ call.op = "GetVersion"
  /\ LastResponse.StatusCode = 404
  /\ LastResponse.Body = "{\"error_code\":\"RESOURCE_DOES_NOT_EXIST\",\"message\":\"Run not found\"}"
  /\ IsAPIError(call.err).ok
  /\ call.err.ErrorCode = ""
  /\ call.err.Message = LastResponse.Body

\* the request body of the call holds a float JSON cannot represent
Unserializable ==
  \/ call.op = "LogMetric" /\ call.req.Value = NaN
  \/ /\ call.op = "LogBatch"
     /\ \E i \in DOMAIN call.req.metrics.elems : call.req.metrics.elems[i].Value = NaN

\* C16: a call whose request body cannot be serialized to JSON fails with the
\* serialization error, which is not an APIError, returns no data and sends
\* no request; no other call fails with that error.
C16_UnserializableBodyFailsLocally ==
  (Called /\ call.op \in TypedOperations) =>
    /\ Unserializable =>
         /\ call.err = marshalFailed
         /\ ~IsAPIError(call.err).ok
         /\ call.value \in {Nil, Void}
         /\ Len(call.sent) = 0
    /\ call.err = marshalFailed => Unserializable

C16_Witness ==
  /\ Called
  /\ call.op = "LogBatch"
  /\ Unserializable
  /\ BaseURL = "http://localhost:5000"
  /\ call.err = marshalFailed
  /\ Len(call.sent) = 0

(***************************************************************************)
(* Properties of the mapping from operations to HTTP requests.             *)
(***************************************************************************)
\* the method and the endpoint each operation hands to its executor
RequestLine ==
  [CreateExperiment |-> <<"POST", endpoints.ExperimentsCreate>>,
   GetExperiment |-> <<"GET", endpoints.ExperimentsGetBase>>,
   GetExperimentByName |-> <<"GET", endpoints.ExperimentsGetByNameBase>>,
   DeleteExperiment |-> <<"POST", endpoints.ExperimentsDeleteBase>>,
   RestoreExperiment |-> <<"POST", endpoints.ExperimentsRestoreBase>>,
   UpdateExperiment |-> <<"POST", endpoints.ExperimentsUpdate>>,
   SetExperimentTag |-> <<"POST", endpoints.ExperimentsSetTag>>,
   DeleteExperimentTag |-> <<"POST", endpoints.ExperimentsDeleteTag>>,
   SearchExperiments |-> <<"POST", endpoints.ExperimentsSearch>>,
   CreateRun |-> <<"POST", endpoints.RunsCreate>>,
   GetRun |-> <<"POST", endpoints.RunsGet>>,
   SearchRuns |-> <<"POST", endpoints.RunsSearch>>,
   UpdateRun |-> <<"POST", endpoints.RunsUpdate>>,
   DeleteRun |-> <<"POST", endpoints.RunsDelete>>,
   RestoreRun |-> <<"POST", endpoints.RunsRestore>>,
   LogMetric |-> <<"POST", endpoints.RunsLogMetric>>,
   LogParam |-> <<"POST", endpoints.RunsLogParameter>>,
   SetTag |-> <<"POST", endpoints.RunsSetTag>>,
   DeleteTag |-> <<"POST", endpoints.RunsDeleteTag>>,
   LogBatch |-> <<"POST", endpoints.RunsLogBatch>>,
   LogModel |-> <<"POST", endpoints.RunsLogModel>>,
   LogInputs |-> <<"POST", endpoints.RunsLogInputs>>,
   GetMetricHistory |-> <<"GET", endpoints.MetricsGetHistoryBase>>,
   ListArtifacts |-> <<"GET", endpoints.ArtifactsListBase>>,
   CreateRegisteredModel |-> <<"POST", endpoints.RegisteredModelsCreate>>,
   GetRegisteredModel |-> <<"POST", endpoints.RegisteredModelsGet>>,
   ListRegisteredModels |-> <<"GET", endpoints.RegisteredModelsList>>,
   UpdateRegisteredModel |-> <<"PATCH", endpoints.RegisteredModelsUpdate>>,
   DeleteRegisteredModel |-> <<"POST", endpoints.RegisteredModelsDelete>>,
   CreateModelVersion |-> <<"POST", endpoints.ModelVersionsCreate>>,
   GetModelVersion |-> <<"POST", endpoints.ModelVersionsGetBase>>,
   ListModelVersions |-> <<"GET", endpoints.ModelVersionsList>>,
   UpdateModelVersion |-> <<"PATCH", endpoints.ModelVersionsUpdate>>,
   DeleteModelVersion |-> <<"POST", endpoints.ModelVersionsDeleteBase>>,
   TransitionModelVersionStage |-> <<"POST", endpoints.ModelVersionsTransitionStage>>,
   RenameRegisteredModel |-> <<"POST", endpoints.RegisteredModelsRename>>,
   GetLatestModelVersions |-> <<"GET", endpoints.RegisteredModelsGetLatestVersions>>,
   SearchModelVersions |-> <<"GET", endpoints.ModelVersionsSearch>>,
   GetDownloadURIs |-> <<"POST", endpoints.ModelVersionsGetDownloadURIs>>,
   SearchRegisteredModels |-> <<"POST", endpoints.RegisteredModelsSearch>>,
   SetRegisteredModelTag |-> <<"POST", endpoints.RegisteredModelsSetTag>>,
   SetModelVersionTag |-> <<"POST", endpoints.ModelVersionsSetTag>>,
   DeleteRegisteredModelTag |-> <<"POST", endpoints.RegisteredModelsDeleteTagBase>>,
   DeleteModelVersionTag |-> <<"POST", endpoints.ModelVersionsDeleteTagBase>>,
   SetRegisteredModelAlias |-> <<"POST", endpoints.RegisteredModelsAliasBase>>,
   DeleteRegisteredModelAlias |-> <<"POST", endpoints.RegisteredModelsAliasBase>>,
   GetModelVersionByAlias |-> <<"POST", endpoints.RegisteredModelsGetModelVersionByAliasBase>>,
   GetHealth |-> <<"GET", endpoints.Health>>,
   GetVersion |-> <<"GET", endpoints.Version>>]

\* the path of a request URL: what follows the base URL, up to the query
PathOf(url) ==
  LET rest == SubSeq(url, Len(BaseURL) + 1, Len(url))
      marks == {i \in 1..Len(rest) : At(rest, i) = "?"}
  IN IF marks = {} THEN rest
     ELSE SubSeq(rest, 1, (CHOOSE i \in marks : \A m \in marks : i <= m) - 1)

\* the method and path of the first request the call sent
SentLine == <<call.sent[1].method, PathOf(call.sent[1].url)>>

\* every request an operation sends has the method and path of RequestLine,
\* whatever the arguments of the call
RequestLineIsSent ==
  (Called /\ call.op \in DOMAIN RequestLine /\ Len(call.sent) > 0) =>
    SentLine = RequestLine[call.op]

\* the operations that read, and those that update in part
ReadOperations ==
  {"GetExperiment", "GetExperimentByName", "SearchExperiments", "GetRun", "SearchRuns",
   "GetMetricHistory", "ListArtifacts", "GetRegisteredModel", "ListRegisteredModels",
   "GetModelVersion", "ListModelVersions", "GetLatestModelVersions", "SearchModelVersions",
   "GetDownloadURIs", "SearchRegisteredModels", "GetModelVersionByAlias"}
PartialUpdateOperations == {"UpdateRegisteredModel", "UpdateModelVersion"}
DeleteOperations ==
  {"DeleteExperiment", "DeleteExperimentTag", "DeleteRun", "DeleteTag", "DeleteRegisteredModel",
   "DeleteModelVersion", "DeleteRegisteredModelTag", "DeleteModelVersionTag",
   "DeleteRegisteredModelAlias"}

\* C17 as stated: the verb of a typed operation is fixed (it does not depend
\* on the arguments) and follows the convention: GET for every read, PATCH
\* for the two partial updates, POST or DELETE for a deletion, POST for every
\* other mutation.
C17_VerbFollowsConvention ==
  (Called /\ call.op \in TypedOperations /\ Len(call.sent) > 0) =>
    /\ call.sent[1].method = RequestLine[call.op][1]
    /\ call.sent[1].method \in
         (IF call.op \in ReadOperations THEN {"GET"}
          ELSE IF call.op \in PartialUpdateOperations THEN {"PATCH"}
          ELSE IF call.op \in DeleteOperations THEN {"POST", "DELETE"}
          ELSE {"POST"})

\* C18 as stated: the request a call sends has a method and path that no
\* other operation uses, so the request tells the operation.
C18_RequestTellsOperation ==
  (Called /\ call.op \in DOMAIN RequestLine /\ Len(call.sent) > 0) =>
    \A other \in DOMAIN RequestLine \ {call.op} : RequestLine[other] # SentLine

(***************************************************************************)
(* Properties of the JSON round trip.                                      *)
(***************************************************************************)
\* a round trip has been made and its result is held
RoundTripped == Called /\ call.op = "RoundTrip"

RECURSIVE Normalized(_, _)
\* v with every empty list of an omitempty field replaced by the nil list
Normalized(v, ty) ==
  CASE ty.k = "slice" ->
         IF v.isNil THEN v
         ELSE Slice([i \in DOMAIN v.elems |-> Normalized(v.elems[i], ty.elem)])
    [] ty.k = "struct" ->
         [n \in DOMAIN v |->
            LET i == CHOOSE i \in DOMAIN ty.fields : ty.fields[i].name = n
                w == Normalized(v[n], ty.fields[i].ty)
            IN IF ty.fields[i].omitempty /\ ty.fields[i].ty.k = "slice" /\ Len(w.elems) = 0
               THEN SliceNil ELSE w]
    [] OTHER -> v

RECURSIVE HasNaN(_, _)
\* v holds a float that JSON cannot represent
HasNaN(v, ty) ==
  CASE ty.k = "float64" -> v = NaN
    [] ty.k = "slice" -> \E i \in DOMAIN v.elems : HasNaN(v.elems[i], ty.elem)
    [] ty.k = "struct" ->
         \E i \in DOMAIN ty.fields : HasNaN(v[ty.fields[i].name], ty.fields[i].ty)
    [] OTHER -> FALSE

\* C19 as stated: every value of every request/response type is encoded, and
\* decoding the encoding gives a value equal to it field for field.
C19_RoundTripIsIdentity ==
  RoundTripped =>
    /\ ~call.encoded.err
    /\ ~call.decoded.nil
    /\ ~call.decoded.v.err
    /\ call.decoded.v.v = call.v

\* C19 (amended): a value is encoded unless it holds a NaN; decoding the
\* encoding succeeds and gives the value back, except that an empty non-nil
\* list in an omitempty field comes back as the nil list.
C19_RoundTripUpToEmptyLists ==
  RoundTripped =>
    /\ call.encoded.err <=> HasNaN(call.v, SurfaceTypes[call.T])
    /\ ~call.encoded.err =>
         /\ ~call.decoded.nil
         /\ ~call.decoded.v.err
         /\ call.decoded.v.v = Normalized(call.v, SurfaceTypes[call.T])
         /\ (call.v = Normalized(call.v, SurfaceTypes[call.T])) => call.decoded.v.v = call.v

C19_Witness ==
  /\ RoundTripped
  /\ call.T = "CreateRunRequest"
  /\ call.v.Tags = Slice(<<>>)
  /\ ~call.encoded.err
  /\ call.decoded.v.v.Tags = SliceNil

(***************************************************************************)
(* Properties of the client configuration.                                 *)
(***************************************************************************)
\* C20 as stated: the BaseURL held by a client never ends with a slash, so
\* every request URL has exactly one slash where BaseURL and endpoint join.
C20_BaseURLHasNoTrailingSlash ==
  /\ Len(BaseURL) > 0 => At(BaseURL, Len(BaseURL)) # "/"
  /\ (Called /\ "sent" \in DOMAIN call) =>
       \A i \in DOMAIN call.sent :
         /\ SubSeq(call.sent[i].url, 1, Len(BaseURL)) = BaseURL
         /\ At(call.sent[i].url, Len(BaseURL) + 1) = "/"
         /\ At(call.sent[i].url, Len(BaseURL)) # "/"

(***************************************************************************)
(* Properties of the server check.                                         *)
(***************************************************************************)
Digits == "0123456789"

RECURSIVE SplitDots(_)
\* the parts of s between its dots
SplitDots(s) ==
  IF \E i \in 1..Len(s) : At(s, i) = "."
  THEN LET i == CHOOSE k \in 1..Len(s) :
                  At(s, k) = "." /\ \A m \in 1..(k - 1) : At(s, m) # "."
       IN <<SubSeq(s, 1, i - 1)>> \o SplitDots(SubSeq(s, i + 1, Len(s)))
  ELSE <<s>>

\* s is a non-empty string of decimal digits
IsNumber(s) ==
  Len(s) > 0 /\ \A i \in 1..Len(s) : \E d \in 1..10 : At(Digits, d) = At(s, i)

RECURSIVE NumberOf(_)
\* the number a string of decimal digits denotes
NumberOf(s) ==
  IF Len(s) = 0 THEN 0
  ELSE 10 * NumberOf(SubSeq(s, 1, Len(s) - 1))
       + (CHOOSE d \in 1..10 : At(Digits, d) = At(s, Len(s))) - 1

\* s has the form major.minor.patch
IsVersion(s) ==
  Len(SplitDots(s)) = 3 /\ \A i \in 1..3 : IsNumber(SplitDots(s)[i])

\* the (major, minor, patch) tuple of a version
VersionTuple(s) == [i \in 1..3 |-> NumberOf(SplitDots(s)[i])]

\* a is numerically lower than b, as tuples
TupleLess(a, b) ==
  \/ a[1] < b[1]
  \/ a[1] = b[1] /\ a[2] < b[2]
  \/ a[1] = b[1] /\ a[2] = b[2] /\ a[3] < b[3]

\* C21: when the health request succeeds with "OK" and the version request
\* succeeds with a version major.minor.patch, CheckServer returns nil exactly
\* when that version is not numerically lower than (3, 8, 0).
C21_NumericVersionDecides ==
  (/\ Called
   /\ call.op = "CheckServer"
   /\ TextSucceeded(1)
   /\ call.resps[1].Body = "OK"
   /\ TextSucceeded(2)
   /\ IsVersion(call.resps[2].Body)) =>
    ((call.err = NoError) <=>
       ~TupleLess(VersionTuple(call.resps[2].Body), <<3, 8, 0>>))

\* C22: CheckServer sends at most two requests; the first is GET /health and
\* the second GET /version; a second request is sent only after the health
\* request was answered with a status in 200-299 and the body "OK", and when
\* the health request fails or is answered otherwise, it is the only request.
C22_HealthThenVersion ==
  (Called /\ call.op = "CheckServer") =>
    /\ Len(call.sent) <= 2
    /\ Len(call.sent) >= 1 =>
         /\ call.sent[1].method = "GET"
         /\ call.sent[1].url = BaseURL \o "/health"
    /\ Len(call.sent) = 2 =>
         /\ call.sent[2].method = "GET"
         /\ call.sent[2].url = BaseURL \o "/version"
         /\ TextSucceeded(1)
         /\ call.resps[1].Body = "OK"
    /\ (Len(call.sent) >= 1 /\ ~(TextSucceeded(1) /\ call.resps[1].Body = "OK")) =>
         Len(call.sent) = 1

C22_Witness ==
  /\ Called
  /\ call.op = "CheckServer"
  /\ Len(call.sent) = 2
  /\ call.resps[1] = [k |-> "response", StatusCode |-> 299, Body |-> "OK"]
  /\ call.sent[2].url = "http://localhost:5000/version"

(***************************************************************************)
(* A request in flight on one goroutine while another goroutine calls      *)
(* SetAuthToken on the same client.  Neither the setter nor the executors  *)
(* synchronise: c.AuthToken is read twice, once by the test                *)
(* c.AuthToken != "" and once to build the header, and SetAuthToken can    *)
(* store between the two reads or during one of them.                      *)
(***************************************************************************)
\* what a read of the string c.AuthToken (a data word and a length word) can
\* return while SetAuthToken replaces old by new: either string, or the data
\* of one cut to the length of the other; a length beyond the data is a
\* read out of bounds, taken here as a fault of the reading goroutine
racyRead(old, new) ==
  {[fault |-> FALSE, s |-> old], [fault |-> FALSE, s |-> new]}
  \cup {IF Len(w[2]) <= Len(w[1])
        THEN [fault |-> FALSE, s |-> SubSeq(w[1], 1, Len(w[2]))]
        ELSE [fault |-> TRUE, s |-> ""] : w \in {<<old, new>>, <<new, old>>}}

\* doRequest and doTextRequest up to the test c.AuthToken != ""
requestTestsAuthToken ==
  /\ call = NoCall
  /\ \E executor \in {"doRequest", "doTextRequest"} :
       call' = [op |-> executor, pc |-> "tested", nonEmpty |-> AuthToken # ""]
  /\ UNCHANGED <<BaseURL, AuthToken, Timeout, tc, store, server>>

\* doRequest and doTextRequest from the test to HTTPClient.Do: when the test
\* passed, the header is built from a second read of c.AuthToken, which a
\* store of SetAuthToken may overlap
requestSetsAuthorization ==
  /\ call # NoCall
  /\ call.pc = "tested"
  /\ \E token \in AuthTokens, overlapped \in BOOLEAN :
       /\ AuthToken' = IF overlapped THEN token ELSE AuthToken
       /\ \E read \in (IF overlapped /\ call.nonEmpty
                       THEN racyRead(AuthToken, token)
                       ELSE {[fault |-> FALSE, s |-> AuthToken]}) :
            call' = [op |-> call.op,
                     pc |-> IF read.fault THEN "fault" ELSE "sent",
                     header |-> IF call.nonEmpty /\ ~read.fault
                                THEN "Authorization" :> ("Bearer " \o read.s)
                                ELSE <<>>]
  /\ UNCHANGED <<BaseURL, Timeout, tc, store, server>>

ConcurrentNext ==
  \/ SetAuthToken
  \/ SetTimeout
  \/ requestTestsAuthToken
  \/ requestSetsAuthorization
  \/ Discard

ConcurrentSpec == Init /\ [][ConcurrentNext]_vars

\* C23: a request sent while SetAuthToken runs concurrently carries either no
\* Authorization header or "Bearer " followed by a complete non-empty token,
\* never "Bearer " followed by nothing.
C23_NoEmptyBearer ==
  (call # NoCall /\ call.pc = "sent") =>
    \/ "Authorization" \notin DOMAIN call.header
    \/ call.header["Authorization"] \in {"Bearer " \o t : t \in AuthTokens \ {""}}

(***************************************************************************)
(* Properties of the configuration under sequential use.                   *)
(***************************************************************************)
\* C24: in every step of a sequential use of one client, BaseURL stays as
\* it is; a step that changes the token changes nothing else and a step that
\* changes the timeout changes nothing else; a step in which an operation
\* runs, whether it succeeds or fails, changes no configuration field; and
\* every request such a step sends carries "Bearer " and the token last set
\* when that token is non-empty, and no Authorization header when it is empty
\* or was never set.
C24_ConfigurationFrame ==
  [][/\ BaseURL' = BaseURL
     /\ (AuthToken' # AuthToken) => (Timeout' = Timeout /\ call' = call)
     /\ (Timeout' # Timeout) => (AuthToken' = AuthToken /\ call' = call)
     /\ (call' # call) => (AuthToken' = AuthToken /\ Timeout' = Timeout)
     /\ (call = NoCall /\ call' # NoCall) =>
          \A i \in DOMAIN call'.sent :
            /\ ("Authorization" \in DOMAIN call'.sent[i].header) <=> (AuthToken' # "")
            /\ ("Authorization" \in DOMAIN call'.sent[i].header) =>
                 call'.sent[i].header["Authorization"] = "Bearer " \o AuthToken']_vars

\* a failed operation after both setters ran, the configuration intact
C24_Witness ==
  /\ Called
  /\ call.op = "DeleteRun"
  /\ IsAPIError(call.err).ok
  /\ AuthToken = "secret-2"
  /\ Timeout = 5
  /\ Len(call.sent) = 1
  /\ "Authorization" \in DOMAIN call.sent[1].header
  /\ call.sent[1].header["Authorization"] = "Bearer secret-2"

(***************************************************************************)
(* Properties of the operations that return only an error.                 *)
(***************************************************************************)
\* C25: an operation that returns only an error returns nil for every
\* response with a status in 200-299, whatever its body, and never returns
\* the error of a failed decoding.
C25_ErrorOnlyIgnoresBody ==
  (Called /\ call.op \in ErrorOnlyOperations) =>
    /\ (Answered /\ Success(LastResponse.StatusCode)) => call.err = NoError
    /\ call.err # NoError =>
         ~(call.err.kind = "wrapError" /\ call.err.msg = "failed to unmarshal response: ")

\* SetRegisteredModelAlias answered 200 with a body that is not JSON
C25_Witness ==
  /\ Answered
  /\ call.op = "SetRegisteredModelAlias"
  /\ LastResponse.StatusCode = 200
  /\ LastResponse.Body = "plain text failure"
  /\ call.err = NoError

(***************************************************************************)
(* Properties of the paging arguments of the list operations.              *)
(***************************************************************************)
ListOperations == {"ListRegisteredModels", "ListModelVersions", "GetMetricHistory"}

\* the max-results the caller supplied
MaxResultsGiven ==
  IF "MaxResults" \in DOMAIN call.req THEN call.req.MaxResults ELSE call.req.maxResults

\* how many times the query of url names the parameter key
QueryOccurrences(url, key) ==
  Cardinality({i \in 2..Len(url) :
                 /\ i + Len(key) <= Len(url)
                 /\ At(url, i - 1) \in {"?", "&"}
                 /\ SubSeq(url, i, i + Len(key)) = key \o "="})

\* the query of the request carries the paging arguments: max_results once
\* when positive and not otherwise, page_token once when non-empty and not
\* otherwise
PagingArgumentsInQuery(url) ==
  /\ QueryOccurrences(url, "max_results") = (IF MaxResultsGiven > 0 THEN 1 ELSE 0)
  /\ MaxResultsGiven > 0 => QueryValues(url, "max_results") = {ToString(MaxResultsGiven)}
  /\ QueryOccurrences(url, "page_token") = (IF PageTokenGiven # "" THEN 1 ELSE 0)
  /\ PageTokenGiven # "" => QueryValues(url, "page_token") = {PageTokenGiven}

\* C26 as stated: ListRegisteredModels, ListModelVersions and GetMetricHistory
\* send exactly one request in all cases, whose query carries the paging
\* arguments.
C26_ListAlwaysSendsOneRequest ==
  (Called /\ call.op \in ListOperations) =>
    /\ Len(call.sent) = 1
    /\ PagingArgumentsInQuery(call.sent[1].url)

\* C26 (amended): ListRegisteredModels, ListModelVersions and GetMetricHistory
\* never fail on their paging arguments; they send exactly one request, whose
\* query carries max_results once when it is positive and not otherwise, and
\* page_token once when it is non-empty and not otherwise, unless the request
\* cannot be built from the client's base URL, in which case no request is
\* sent.
C26_ListPagingArguments ==
  (Called /\ call.op \in ListOperations) =>
    /\ call.err # validationError
    /\ IF stringContainsCTLByte(BaseURL)
       THEN Len(call.sent) = 0 /\ call.err = createFailed
       ELSE /\ Len(call.sent) = 1
            /\ PagingArgumentsInQuery(call.sent[1].url)

\* ListModelVersions called with a negative max-results and a page token
C26_Witness ==
  /\ Called
  /\ call.op = "ListModelVersions"
  /\ call.req.maxResults = 0 - 1
  /\ call.req.pageToken = "tok 1"
  /\ Len(call.sent) = 1
  /\ call.sent[1].url =
       "http://localhost:5000/api/2.0/mlflow/model-versions/list?name=m1&page_token=tok+1"

(***************************************************************************)
(* Properties of the APIError built from a body without error fields.      *)
(***************************************************************************)
\* a JSON document that carries neither error_code nor message
WithoutErrorFields(j) ==
  /\ j # JInvalid
  /\ j.t = "object" => {"error_code", "message"} \cap DOMAIN j.o = {}

\* the APIError of the call has no code and no message, the status and the
\* raw body of the response, and an Error() text that ends in the raw body
BareAPIError ==
  /\ IsAPIError(call.err).ok
  /\ call.err.ErrorCode = ""
  /\ call.err.Message = ""
  /\ call.err.StatusCode = LastResponse.StatusCode
  /\ call.err.ResponseBody = LastResponse.Body
  /\ APIErrorError(call.err) =
       "MLflow API error [" \o ToString(LastResponse.StatusCode) \o "]: " \o LastResponse.Body

\* C27 as stated: a response outside 200-299 whose body parses as JSON and
\* carries neither error_code nor message yields an APIError with empty
\* ErrorCode and Message, the status, the raw body, and an Error() text that
\* falls back to the raw body; and every APIError has the raw body as its
\* ResponseBody.
C27_AnyJSONWithoutErrorFields ==
  (Answered /\ call.op \in TypedOperations /\ ~Success(LastResponse.StatusCode)) =>
    /\ IsAPIError(call.err).ok
    /\ call.err.ResponseBody = LastResponse.Body
    /\ WithoutErrorFields(Parse(LastResponse.Body)) => BareAPIError

\* C27 (amended): the same for a body that is a JSON object or null; a JSON
\* document of another kind (an array, a string, a number) does not decode
\* into the error shape and is treated like a body that is not JSON, its
\* text becoming the Message.
C27_ObjectWithoutErrorFields ==
  (Answered /\ call.op \in TypedOperations /\ ~Success(LastResponse.StatusCode)) =>
    /\ IsAPIError(call.err).ok
    /\ call.err.ResponseBody = LastResponse.Body
    /\ call.err.StatusCode = LastResponse.StatusCode
    /\ (/\ WithoutErrorFields(Parse(LastResponse.Body))
        /\ Parse(LastResponse.Body).t \in {"object", "null"}) => BareAPIError
    /\ (/\ WithoutErrorFields(Parse(LastResponse.Body))
        /\ Parse(LastResponse.Body).t \notin {"object", "null"}) =>
         /\ call.err.ErrorCode = ""
         /\ call.err.Message = LastResponse.Body

\* a 500 with an object that has only other keys
C27_Witness ==
  /\ Answered
  /\ call.op = "DeleteRun"
  /\ LastResponse.StatusCode = 500
  /\ LastResponse.Body = "{\"experiment_id\":\"7\"}"
  /\ IsAPIError(call.err).ok
  /\ call.err.Message = ""
  /\ APIErrorError(call.err) = "MLflow API error [500]: {\"experiment_id\":\"7\"}"

(***************************************************************************)
(* The feature tests: one scenario of tests/features, from the Before-hook *)
(* to the After-hook.  The steps that create or rename resources call the  *)
(* client; the MLflow server either carries a call out or answers with an  *)
(* error and changes nothing.                                              *)
(***************************************************************************)
\* the identifiers and names the server and the scenarios use
Keys ==
  [experiment |-> {"1", "2"}, run |-> {"r1", "r2"}, model |-> {"test-model", "new-test-model"}]

\* testContext.createExperiment
createExperiment ==
  /\ tc.scenario = "running"
  /\ Len(tc.createdResources) < MaxResources
  /\ \E name \in {"my-experiment"}, id \in {""} \cup (Keys.experiment \ store.experiments) :
       IF id = ""
       THEN /\ tc' = [tc EXCEPT !.experimentName = name, !.lastError = LibError("error")]
            /\ UNCHANGED store
       ELSE /\ tc' = [tc EXCEPT !.experimentName = name, !.experimentID = id,
                                !.createdResources =
                                   Append(@, [Type |-> "experiment", ID |-> id, Name |-> name])]
            /\ store' = [store EXCEPT !.experiments = @ \cup {id},
                                      !.created = @ \cup {[Type |-> "experiment", key |-> id]}]
  /\ UNCHANGED <<BaseURL, AuthToken, Timeout, call, server>>

\* testContext.createRun
createRun ==
  /\ tc.scenario = "running"
  /\ Len(tc.createdResources) < MaxResources
  /\ tc.experimentID # ""
  /\ \E id \in {""} \cup (Keys.run \ store.runs) :
       IF id = ""
       THEN /\ tc' = [tc EXCEPT !.lastError = LibError("error")]
            /\ UNCHANGED store
       ELSE /\ tc' = [tc EXCEPT !.runID = id,
                                !.createdResources =
                                   Append(@, [Type |-> "run", ID |-> id, Name |-> ""])]
            /\ store' = [store EXCEPT !.runs = @ \cup {id},
                                      !.created = @ \cup {[Type |-> "run", key |-> id]}]
  /\ UNCHANGED <<BaseURL, AuthToken, Timeout, call, server>>

\* testContext.createRegisteredModel
createRegisteredModel ==
  /\ tc.scenario = "running"
  /\ Len(tc.createdResources) < MaxResources
  /\ \E name \in Keys.model, ok \in BOOLEAN :
       IF ok /\ name \notin store.models
       THEN /\ tc' = [tc EXCEPT !.modelName = name,
                                !.createdResources =
                                   Append(@, [Type |-> "model", ID |-> "", Name |-> name])]
            /\ store' = [store EXCEPT !.models = @ \cup {name},
                                      !.created = @ \cup {[Type |-> "model", key |-> name]}]
       ELSE /\ tc' = [tc EXCEPT !.modelName = name, !.lastError = LibError("error")]
            /\ UNCHANGED store
  /\ UNCHANGED <<BaseURL, AuthToken, Timeout, call, server>>

\* testContext.renameModel, when the server carries the renaming out (when
\* the server answers with an error, or no model name is set, the step
\* returns the error and changes nothing)
renameModel ==
  /\ tc.scenario = "running"
  /\ tc.modelName # ""
  /\ \E newName \in Keys.model :
       /\ tc.modelName \in store.models
       /\ newName \notin store.models
       /\ tc' = [tc EXCEPT !.modelName = newName]
       /\ store' = [store EXCEPT
                      !.models = (@ \ {tc.modelName}) \cup {newName},
                      !.created = {IF r = [Type |-> "model", key |-> tc.modelName]
                                   THEN [Type |-> "model", key |-> newName]
                                   ELSE r : r \in @}]
  /\ UNCHANGED <<BaseURL, AuthToken, Timeout, call, server>>

\* testContext.cleanup, the After-hook: one delete request per entry of
\* createdResources, last entry first, each error dropped
cleanup ==
  /\ tc.scenario = "running"
  /\ LET n == Len(tc.createdResources)
         requests == [i \in 1..n |->
                        LET resource == tc.createdResources[n + 1 - i]
                        IN [Type |-> resource.Type,
                            key |-> IF resource.Type = "model"
                                    THEN resource.Name ELSE resource.ID]]
         asked(type) == {requests[i].key : i \in {k \in 1..n : requests[k].Type = type}}
     IN /\ store' = [store EXCEPT !.deletes = requests,
                                  !.experiments = @ \ asked("experiment"),
                                  !.runs = @ \ asked("run"),
                                  !.models = @ \ asked("model")]
        /\ tc' = [tc EXCEPT !.createdResources = <<>>, !.scenario = "cleaned"]
  /\ UNCHANGED <<BaseURL, AuthToken, Timeout, call, server>>

ScenarioNext ==
  \/ createExperiment
  \/ createRun
  \/ createRegisteredModel
  \/ renameModel
  \/ cleanup

ScenarioSpec == Init /\ [][ScenarioNext]_vars

\* C28: after the After-hook, a delete request has been sent for every
\* experiment, run and registered model the scenario's steps created, under
\* the identifier or name the resource has at that moment, and
\* createdResources is empty.
C28_CleanupDeletesEverythingCreated ==
  tc.scenario = "cleaned" =>
    /\ \A r \in store.created : \E i \in DOMAIN store.deletes : store.deletes[i] = r
    /\ tc.createdResources = <<>>

(***************************************************************************)
(* The test server of testutil: Start launches the mlflow process and      *)
(* waits in waitForServer until GET /health answers 200, the context is    *)
(* cancelled or the deadline has passed.                                   *)
(***************************************************************************)
\* the 30 seconds Start gives waitForServer, in ticker periods of 500 ms
timeout == 60

\* (variant: Stop leaves the process running)
StopWithoutKill(s) == [s EXCEPT !.returned = "nil"]

\* Stop: the process is killed when there is one
Stop(s) ==
  IF s.cmd \in {"running", "killed"}
  THEN [s EXCEPT !.cmd = "killed", !.returned = "nil"]
  ELSE [s EXCEPT !.returned = "nil"]

\* a call of Stop, outside Start
CallStop ==
  /\ server.pc = "idle"
  /\ server' = [Stop(server) EXCEPT !.last = "Stop"]
  /\ UNCHANGED <<BaseURL, AuthToken, Timeout, call, tc, store>>

\* the tail of Start once waitForServer has returned err
startReturns(s, err) ==
  IF err # "nil"
  THEN [Stop(s) EXCEPT !.pc = "idle", !.last = "Start",
                       !.returned = "server failed to start: " \o err]
  ELSE [s EXCEPT !.pc = "idle", !.last = "Start", !.returned = "nil"]

\* Start, up to the call of waitForServer: the mlflow command is looked up,
\* the artifact root created, the process launched under the context ctx,
\* which may be cancelled already (cmd.Start then returns its error)
Start ==
  /\ server.pc = "idle"
  /\ \E done \in BOOLEAN,
        outcome \in {"mlflow command not found", "failed to create artifact root",
                     "failed to start MLflow server", "launched"} :
       LET s == [server EXCEPT !.cancelled = done, !.probe = "none"]
       IN server' =
            CASE outcome = "launched" /\ ~done ->
                   [s EXCEPT !.cmd = "running", !.pc = "waiting", !.now = 0,
                             !.deadline = timeout, !.last = "none", !.returned = "none"]
              [] outcome = "failed to start MLflow server" \/ outcome = "launched" ->
                   [s EXCEPT !.cmd = "unstarted", !.last = "Start",
                             !.returned = "failed to start MLflow server"]
              [] OTHER -> [s EXCEPT !.last = "Start", !.returned = outcome]
  /\ UNCHANGED <<BaseURL, AuthToken, Timeout, call, tc, store>>

\* the context handed to Start is cancelled; exec.CommandContext kills the
\* process of a cancelled context
cancel ==
  /\ ~server.cancelled
  /\ server' = [server EXCEPT !.cancelled = TRUE,
                              !.cmd = IF @ = "running" THEN "killed" ELSE @]
  /\ UNCHANGED <<BaseURL, AuthToken, Timeout, call, tc, store>>

\* (variant: any answer to the probe ends the wait)
waitForServerAnyStatus ==
  /\ server.pc = "waiting"
  /\ \E elapsed \in 1..3, probe \in {"error", "200", "503"} :
       LET s == [server EXCEPT !.now = @ + elapsed]
       IN server' =
            IF s.now > s.deadline
            THEN startReturns([s EXCEPT !.probe = "none"],
                              "timeout waiting for server to start")
            ELSE IF probe # "error"
            THEN startReturns([s EXCEPT !.probe = probe], "nil")
            ELSE [s EXCEPT !.probe = probe]
  /\ UNCHANGED <<BaseURL, AuthToken, Timeout, call, tc, store>>

\* waitForServer, the case <-ticker.C of its select: at least one period
\* has passed since the last tick; past the deadline the wait returns the
\* timeout error, else GET /health is tried, and a 200 ends the wait
waitForServer ==
  /\ server.pc = "waiting"
  /\ \E elapsed \in 1..3, probe \in {"error", "200", "503"} :
       LET s == [server EXCEPT !.now = @ + elapsed]
       IN server' =
            IF s.now > s.deadline
            THEN startReturns([s EXCEPT !.probe = "none"],
                              "timeout waiting for server to start")
            ELSE IF probe = "200"
            THEN startReturns([s EXCEPT !.probe = probe], "nil")
            ELSE [s EXCEPT !.probe = probe]
  /\ UNCHANGED <<BaseURL, AuthToken, Timeout, call, tc, store>>

\* waitForServer, the case <-ctx.Done() of its select, which can be taken
\* once the context is cancelled; when a tick is ready as well, select takes
\* either case
waitForServerDone ==
  /\ server.pc = "waiting"
  /\ server.cancelled
  /\ server' = startReturns(server, "context canceled")
  /\ UNCHANGED <<BaseURL, AuthToken, Timeout, call, tc, store>>

ServerNext ==
  \/ Start
  \/ cancel
  \/ waitForServer
  \/ waitForServerDone
  \/ CallStop

\* the ticker keeps firing and every probe returns
ServerSpec == Init /\ [][ServerNext]_vars /\ WF_vars(waitForServer)

\* C29: Start returns nil only when the last GET /health of its wait was
\* answered with status 200; when Start returns an error after the process
\* was launched (the deadline passed or the context was cancelled), the
\* process has been killed; and a Stop on a server that was never started
\* returns nil and changes nothing of the server.
C29_StartAndStop ==
  [][/\ (server'.last = "Start" /\ server'.returned = "nil") => server'.probe = "200"
     /\ (server.pc = "waiting" /\ server'.pc = "idle" /\ server'.returned # "nil") =>
          /\ server'.returned \in {"server failed to start: timeout waiting for server to start",
                                   "server failed to start: context canceled"}
          /\ server'.cmd = "killed"
     /\ (/\ server.cmd = "nil"
         /\ server.pc = "idle"
         /\ server'.last = "Stop"
         /\ server'.cancelled = server.cancelled) =>
          /\ server'.returned = "nil"
          /\ [server' EXCEPT !.last = server.last, !.returned = server.returned] = server]_vars

\* a Start that ran into the deadline and killed the process it launched
C29_Witness ==
  /\ server.last = "Start"
  /\ server.returned = "server failed to start: timeout waiting for server to start"
  /\ server.cmd = "killed"
  /\ ~server.cancelled
  /\ server.now > server.deadline

\* C30 as stated, its part on cancellation: once the context is cancelled,
\* the wait returns the context's error.
C30_CancelledMeansContextError ==
  [][(server.pc = "waiting" /\ server.cancelled /\ server'.pc = "idle") =>
       server'.returned = "server failed to start: context canceled"]_vars

\* C30 (amended): waitForServer always terminates; it returns nil exactly at
\* a tick not after the deadline whose probe answers 200, the timeout error
\* exactly at a tick after the deadline, and the context's error only when
\* the context is cancelled; a cancelled context does not keep a tick that is
\* ready from being served first; a probe that fails or answers another
\* status leaves the wait going.
C30_WaitTerminates ==
  /\ [][/\ (server.pc = "waiting" /\ server'.pc = "idle") =>
             /\ server'.returned = "nil" <=>
                  (server'.probe = "200" /\ server'.now > server.now
                                         /\ server'.now <= server'.deadline)
             /\ server'.returned = "server failed to start: timeout waiting for server to start" <=>
                  (server'.now > server.now /\ server'.now > server'.deadline)
             /\ server'.returned = "server failed to start: context canceled" <=>
                  (server.cancelled /\ server'.now = server.now)
        /\ (server.pc = "waiting" /\ server'.pc = "waiting" /\ server'.now # server.now) =>
             /\ server'.probe \in {"error", "503"}
             /\ server'.now <= server'.deadline]_vars
  /\ (server.pc = "waiting") ~> (server.pc = "idle")

\* the wait went through a failed probe and a 503 before a 200 ended it
C30_Witness ==
  /\ server.last = "Start"
  /\ server.returned = "nil"
  /\ server.probe = "200"
  /\ server.now >= 3
  /\ server.cmd = "running"

====
